---- MODULE Spec2Model ----
(***************************************************************************)
(* Retrieval subsystem of the learning chatbot: the FAISS-backed           *)
(* VectorStore (backend/vectorstore.py), the sliding-window chunker        *)
(* (backend/pdf_parser.py), the RAGSystem orchestrator (backend/rag.py),   *)
(* the QnASystem answer operations (backend/qna.py) and the Streamlit      *)
(* sessions that share one cached RAGSystem (frontend/app.py).             *)
(***************************************************************************)
EXTENDS Integers, Sequences, FiniteSets, TLC

\* ------------------------------------------------------------------ bounds
MaxChunks == 2        \* longest chunk list handed to create_index
MaxTopK == 3          \* largest top_k of a search
MaxTextLen == 3       \* longest text handed to chunk_text
MaxSize == 3          \* largest chunk_size handed to chunk_text
MaxDocLen == 2        \* longest text extracted from an uploaded PDF
MaxDocs == 2          \* most documents merged into merged.txt
MaxKoInfo == 2        \* longest ko_info sequence of a well-formed document
MaxEntries == 2       \* longest corpus or root sequence of a well-formed document
MaxSiblings == 3      \* longest sequence of entries, documents or files with malformed ones
MaxItems == 2         \* longest sequence inside a document handed to parse_knowledge_json
MaxMergedLen == 7     \* longest text of merged.txt handed to build_index_from_merged

\* --------------------------------------------------------------- state
VARIABLES
    stores,      \* VectorStore objects: self.index and self.chunks of each
    disk,        \* index directories: index.faiss and chunks.pkl of each
    ret,         \* the last call: its arguments and what it returned or raised
    text,        \* chunk_text: the text argument
    chunk_size,  \* chunk_text: the chunk_size argument
    overlap,     \* chunk_text: the overlap argument
    start,       \* chunk_text: the local start
    chunks,      \* chunk_text: the local chunks
    pc,          \* chunk_text: "idle", "loop" (at the while test) or "done"
    sessions,    \* st.session_state of each browser session
    rag_cached,  \* st.cache_resource holds the RAGSystem of get_rag_system
    uploads,     \* the files of ./data/uploads
    payload,     \* the JSON input of the extractor or parser call in progress
    models,      \* self.model of each VectorStore: the SentenceTransformer it holds
    callers      \* VectorStore.search: the locals of each call in progress

storeVars == <<stores, disk, ret>>
chunkVars == <<text, chunk_size, overlap, start, chunks, pc>>
appVars == <<sessions, rag_cached, uploads>>
parseVars == <<payload>>
searchVars == <<callers>>
vars == <<stores, disk, ret, text, chunk_size, overlap, start, chunks, pc,
          sessions, rag_cached, uploads, payload, models, callers>>

\* ------------------------------------------------------------ data model
StoreIds == {"knowledge", "user"}
Paths == {"knowledge_vectorstore", "user_pdf_vectorstore"}
DocNames == {"a", "b"}
Digit == <<"1", "2", "3", "4", "5">>

\* A chunk text is a sequence of characters: the document letter followed
\* by the ordinal of the chunk.
ChunkTextOf(d, i) == <<d, Digit[i]>>

\* chunk dicts {"text": ..., "index": ...} as the chunkers produce them
ChunkList(d, n) == [i \in 1..n |-> [text |-> ChunkTextOf(d, i), index |-> i - 1]]

ChunkLists == {ChunkList(d, n) : d \in DocNames, n \in 0..MaxChunks}

Queries == {<<"a">>, <<"b", "2">>}
TopKs == 1..MaxTopK

\* ---------------------------------------------------------------- chunker
Alphabet == {"a", "b", " "}
IsSpace(c) == c \in {" ", "\n", "\t", "\r"}

RECURSIVE SeqsUpTo(_, _)
SeqsUpTo(S, n) ==
    IF n = 0 THEN {<<>>}
    ELSE LET shorter == SeqsUpTo(S, n - 1)
         IN shorter \cup {Append(t, c) : t \in {u \in shorter : Len(u) = n - 1}, c \in S}

\* Python slice t[a:b] for 0 <= a <= b
Slice(t, a, b) == SubSeq(t, a + 1, IF b < Len(t) THEN b ELSE Len(t))

\* str.strip()
RECURSIVE LStrip(_)
LStrip(t) == IF t # <<>> /\ IsSpace(Head(t)) THEN LStrip(Tail(t)) ELSE t
RECURSIVE RStrip(_)
RStrip(t) ==
    IF t # <<>> /\ IsSpace(t[Len(t)]) THEN RStrip(SubSeq(t, 1, Len(t) - 1)) ELSE t
Strip(t) == RStrip(LStrip(t))

\* a loop body that numbers a chunk by the position of its window
EmitIndexByStart(cs, t, st, size) ==
    LET end == st + size
        window == Slice(t, st, end)
    IN IF Strip(window) # <<>>
       THEN Append(cs, [text |-> window, index |-> st, start |-> st, end |-> end])
       ELSE cs

\* the body of the while loop of chunk_text: the chunks after the window
\* that starts at st
Emit(cs, t, st, size) ==
    LET end == st + size
        window == Slice(t, st, end)
    IN IF Strip(window) # <<>>
       THEN Append(cs, [text |-> window, index |-> Len(cs), start |-> st, end |-> end])
       ELSE cs

\* a loop that advances by the overlap instead of stepping back by it
NextStartByOverlap(st, size, ov) == st + ov

\* a loop that steps forward by the overlap instead of stepping back by it
NextStartSkipping(st, size, ov) == (st + size) + ov

\* and the start of the next window: start = end - overlap
NextStart(st, size, ov) == (st + size) - ov

RECURSIVE ChunkLoop(_, _, _, _, _)
ChunkLoop(t, size, ov, st, cs) ==
    IF st < Len(t)
    THEN ChunkLoop(t, size, ov, NextStart(st, size, ov), Emit(cs, t, st, size))
    ELSE cs

\* chunk_text(text, chunk_size, overlap) as a function of its arguments
ChunkText(t, size, ov) == ChunkLoop(t, size, ov, 0, <<>>)

\* ------------------------------------------------------ embedding model
\* SentenceTransformer.encode: a deterministic map from a text to a vector
\* of self.dimension numbers (here dimension 2, integer coordinates).
CharCode(c) ==
    IF c = "a" THEN 1 ELSE IF c = "b" THEN 4 ELSE IF c = "k" THEN 2
    ELSE IF c = "1" THEN 3 ELSE IF c = "3" THEN 5 ELSE 0

RECURSIVE WeightedSum(_, _)
WeightedSum(t, i) ==
    IF i > Len(t) THEN 0 ELSE i * CharCode(t[i]) + WeightedSum(t, i + 1)

Encode(t) == <<WeightedSum(t, 1), Len(t)>>

EncodeAll(texts) == [i \in 1..Len(texts) |-> Encode(texts[i])]

\* ------------------------------------------------------------ FAISS index
\* distance reported by IndexFlatL2.search for a missing neighbour (FLT_MAX)
FLT_MAX == 1000

L2Sqr(x, y) == (x[1] - y[1]) * (x[1] - y[1]) + (x[2] - y[2]) * (x[2] - y[2])

\* the stored vector of S nearest to xq; ties go to the lower position
Nearest(S, xb, xq) ==
    CHOOSE i \in S : \A j \in S :
        \/ L2Sqr(xb[i], xq) < L2Sqr(xb[j], xq)
        \/ L2Sqr(xb[i], xq) = L2Sqr(xb[j], xq) /\ i <= j

RECURSIVE KnnFrom(_, _, _, _)
KnnFrom(S, xb, xq, k) ==
    IF k = 0 THEN <<>>
    ELSE IF S = {} THEN <<[dist |-> FLT_MAX, idx |-> -1]>> \o KnnFrom(S, xb, xq, k - 1)
    ELSE LET b == Nearest(S, xb, xq)
         IN <<[dist |-> L2Sqr(xb[b], xq), idx |-> b - 1]>>
                \o KnnFrom(S \ {b}, xb, xq, k - 1)

\* IndexFlatL2.search(xq, k): always k (distance, label) pairs in ascending
\* distance; when fewer than k vectors are stored the tail is padded with
\* label -1 and distance FLT_MAX.
IndexSearch(xb, xq, k) == KnnFrom(1..Len(xb), xb, xq, k)

\* Python list indexing with a 0-based, possibly negative, position:
\* list[i] raises IndexError outside -len(list) .. len(list) - 1
PyInRange(list, i) == -Len(list) <= i /\ i < Len(list)
PyItem(list, i) == IF i >= 0 THEN list[i + 1] ELSE list[Len(list) + i + 1]

\* ------------------------------------------------------------ VectorStore
\* self.index is None, or an IndexFlatL2 holding the vectors xb
NoIndex == [none |-> TRUE, xb |-> <<>>]
FlatL2(xb) == [none |-> FALSE, xb |-> xb]

NewStore == [index |-> NoIndex, chunks |-> <<>>]

\* self.model = SentenceTransformer(model_name, cache_folder=cache_folder):
\* every VectorStore.__init__ makes an object of its own, named here by the
\* store it is made for; NoModel is the self.model of a store not yet made
ModelOf(s) == [made_for |-> s]
NoModel == [made_for |-> "none"]
\* the models of stores that were each made by a call of VectorStore(...)
EachOwnModel(S) == [s \in S |-> ModelOf(s)]

\* the guard of the result loop of search: `if idx < len(self.chunks)`
Keeps(p, cks) == p.idx < Len(cks)

\* the result loop of search reaches a pair it keeps but cannot index
CollectRaises(pairs, cks) ==
    \E i \in 1..Len(pairs) : Keeps(pairs[i], cks) /\ ~PyInRange(cks, pairs[i].idx)

\* the result loop of search: (distance, label) pairs to (chunk, score) results
RECURSIVE Collect(_, _)
Collect(pairs, cks) ==
    IF pairs = <<>> THEN <<>>
    ELSE LET p == Head(pairs)
         IN (IF Keeps(p, cks)
             THEN <<[chunk |-> PyItem(cks, p.idx), score |-> p.dist]>>
             ELSE <<>>) \o Collect(Tail(pairs), cks)

\* VectorStore.search: the outcome of one call on store value s
Search(s, query, top_k, encOk) ==
    IF s.index.none THEN [err |-> "none", results |-> <<>>]
    ELSE IF ~encOk THEN [err |-> "EmbeddingBackendError", results |-> <<>>]
    ELSE LET pairs == IndexSearch(s.index.xb, Encode(query), top_k)
         IN IF CollectRaises(pairs, s.chunks)
            THEN [err |-> "IndexError", results |-> <<>>]
            ELSE [err |-> "none", results |-> Collect(pairs, s.chunks)]

Texts(cks) == [i \in 1..Len(cks) |-> cks[i].text]

\* create_index that adds to the index it already has instead of rebuilding
CreateIndexOnAppend(s, cks, encOk, addOk) ==
    IF ~encOk THEN [store |-> s, err |-> "EmbeddingBackendError"]
    ELSE IF cks = <<>> /\ ~addOk
         THEN [store |-> [s EXCEPT !.index = FlatL2(<<>>)], err |-> "ValueError"]
    ELSE [store |-> [index |-> FlatL2(s.index.xb \o EncodeAll(Texts(cks))),
                     chunks |-> s.chunks \o cks],
          err |-> "none"]

\* VectorStore.create_index: the store after the call and the error raised.
\* addOk is whether index.add accepts the embeddings of an empty chunk list
\* (an array without a second dimension).
CreateIndexOn(s, cks, encOk, addOk) ==
    IF ~encOk THEN [store |-> s, err |-> "EmbeddingBackendError"]
    ELSE IF cks = <<>> /\ ~addOk
         THEN [store |-> [s EXCEPT !.index = FlatL2(<<>>)], err |-> "ValueError"]
    ELSE [store |-> [index |-> FlatL2(EncodeAll(Texts(cks))), chunks |-> cks],
          err |-> "none"]

\* the two files of a persisted index directory
NoFaissFile == [exists |-> FALSE, xb |-> <<>>]
FaissFile(xb) == [exists |-> TRUE, xb |-> xb]
NoPklFile == [state |-> "absent", chunks |-> <<>>]
CorruptPklFile == [state |-> "corrupt", chunks |-> <<>>]
PklFile(cks) == [state |-> "ok", chunks |-> cks]

EmptyDir == [faiss |-> NoFaissFile, pkl |-> NoPklFile]

SaveFaults == {"none", "write_index", "open", "dump"}

\* VectorStore.save: the directory after the call and the error raised
SaveTo(s, dir, fault) ==
    IF s.index.none THEN [dir |-> dir, err |-> "TypeError"]
    ELSE IF fault = "write_index" THEN [dir |-> dir, err |-> "StorageWriteError"]
    ELSE IF fault = "open"
         THEN [dir |-> [dir EXCEPT !.faiss = FaissFile(s.index.xb)],
               err |-> "StorageWriteError"]
    ELSE IF fault = "dump"
         THEN [dir |-> [faiss |-> FaissFile(s.index.xb), pkl |-> CorruptPklFile],
               err |-> "StorageWriteError"]
    ELSE [dir |-> [faiss |-> FaissFile(s.index.xb), pkl |-> PklFile(s.chunks)],
          err |-> "none"]

\* load that adds the persisted state to the state in memory
LoadFromAdditive(s, dir) ==
    IF ~dir.faiss.exists THEN [store |-> s, err |-> "StorageReadError"]
    ELSE IF dir.pkl.state # "ok"
         THEN [store |-> [s EXCEPT !.index = FlatL2(dir.faiss.xb)],
               err |-> "StorageReadError"]
    ELSE [store |-> [index |-> FlatL2(s.index.xb \o dir.faiss.xb),
                     chunks |-> s.chunks \o dir.pkl.chunks],
          err |-> "none"]

\* VectorStore.load: the store after the call and the error raised
LoadFrom(s, dir) ==
    IF ~dir.faiss.exists THEN [store |-> s, err |-> "StorageReadError"]
    ELSE IF dir.pkl.state # "ok"
         THEN [store |-> [s EXCEPT !.index = FlatL2(dir.faiss.xb)],
               err |-> "StorageReadError"]
    ELSE [store |-> [index |-> FlatL2(dir.faiss.xb), chunks |-> dir.pkl.chunks],
          err |-> "none"]

\* ------------------------------------------------------ knowledge indexer
\* number of consecutive newlines of t from position i (1-based)
RECURSIVE RunLen(_, _)
RunLen(t, i) == IF i <= Len(t) /\ t[i] = "\n" THEN 1 + RunLen(t, i + 1) ELSE 0

\* a split at every newline, single ones too
RECURSIVE SplitFromEveryNewline(_, _, _)
SplitFromEveryNewline(t, i, cur) ==
    IF i > Len(t) THEN <<cur>>
    ELSE IF RunLen(t, i) >= 1
         THEN <<cur>> \o SplitFromEveryNewline(t, i + RunLen(t, i), <<>>)
    ELSE SplitFromEveryNewline(t, i + 1, Append(cur, t[i]))

\* re.split(r"\n{2,}", t): cur is the segment collected so far
RECURSIVE SplitFrom(_, _, _)
SplitFrom(t, i, cur) ==
    IF i > Len(t) THEN <<cur>>
    ELSE IF RunLen(t, i) >= 2 THEN <<cur>> \o SplitFrom(t, i + RunLen(t, i), <<>>)
    ELSE SplitFrom(t, i + 1, Append(cur, t[i]))

ReSplit(t) == SplitFrom(t, 1, <<>>)

RECURSIVE StripNonEmpty(_)
StripNonEmpty(segs) ==
    IF segs = <<>> THEN <<>>
    ELSE (IF Strip(Head(segs)) # <<>> THEN <<Strip(Head(segs))>> ELSE <<>>)
             \o StripNonEmpty(Tail(segs))

\* the chunks build_index_from_merged makes of the text of merged.txt
MergedChunks(t) ==
    LET parts == StripNonEmpty(ReSplit(t))
    IN [i \in 1..Len(parts) |-> [text |-> parts[i], index |-> i - 1]]

\* ------------------------------------------------------------ JSON values
\* what json.loads returns: str, int, None, list, or dict (its items in
\* insertion order, each a key with its value)
JStr(t) == [kind |-> "str", val |-> t]
JNum(n) == [kind |-> "num", val |-> n]
JNull == [kind |-> "null", val |-> 0]
JList(items) == [kind |-> "list", val |-> items]
JDict(items) == [kind |-> "dict", val |-> items]
Item(k, v) == [key |-> k, val |-> v]

IsStr(v) == v.kind = "str"
IsList(v) == v.kind = "list"
IsDict(v) == v.kind = "dict"

\* key in d
HasKey(d, k) == \E i \in 1..Len(d.val) : d.val[i].key = k

\* d.get(key): the value, or None
DictGet(d, k) ==
    IF HasKey(d, k) THEN d.val[CHOOSE i \in 1..Len(d.val) : d.val[i].key = k].val
    ELSE JNull

\* "\n".join(parts)
RECURSIVE JoinLines(_)
JoinLines(parts) ==
    IF parts = <<>> THEN <<>>
    ELSE IF Len(parts) = 1 THEN parts[1]
    ELSE parts[1] \o <<"\n">> \o JoinLines(Tail(parts))

\* ------------------------------------------------- _extract_ko_txt
\* add(value): parts after the call
Add(parts, value) ==
    IF IsStr(value) /\ Strip(value.val) # <<>>
    THEN Append(parts, Strip(value.val))
    ELSE parts

\* the for loop of walk_ko_info over items[i..]
RECURSIVE WalkKoInfoItems(_, _, _)
WalkKoInfoItems(parts, items, i) ==
    IF i > Len(items) THEN parts
    ELSE WalkKoInfoItems(
             IF IsDict(items[i]) THEN Add(parts, DictGet(items[i], "ko_txt")) ELSE parts,
             items, i + 1)

\* walk_ko_info that takes ko_info only as a list
WalkKoInfoListOnly(parts, ko_info) ==
    IF IsList(ko_info) THEN WalkKoInfoItems(parts, ko_info.val, 1)
    ELSE parts

WalkKoInfo(parts, ko_info) ==
    IF IsList(ko_info) THEN WalkKoInfoItems(parts, ko_info.val, 1)
    ELSE IF IsDict(ko_info) THEN Add(parts, DictGet(ko_info, "ko_txt"))
    ELSE parts

\* the for loop of walk_corpus over entries[i..]
RECURSIVE WalkCorpusEntries(_, _, _)
WalkCorpusEntries(parts, entries, i) ==
    IF i > Len(entries) THEN parts
    ELSE WalkCorpusEntries(
             IF IsDict(entries[i]) /\ HasKey(entries[i], "ko_info")
             THEN WalkKoInfo(parts, DictGet(entries[i], "ko_info"))
             ELSE parts,
             entries, i + 1)

WalkCorpus(parts, corpus) ==
    IF IsList(corpus) THEN WalkCorpusEntries(parts, corpus.val, 1)
    ELSE IF IsDict(corpus)
         THEN (IF HasKey(corpus, "ko_info")
               THEN WalkKoInfo(parts, DictGet(corpus, "ko_info"))
               ELSE parts)
    ELSE parts

\* the for loop over a root that is a list
RECURSIVE WalkRootItems(_, _, _)
WalkRootItems(parts, items, i) ==
    IF i > Len(items) THEN parts
    ELSE WalkRootItems(
             IF IsDict(items[i]) /\ HasKey(items[i], "corpus")
             THEN WalkCorpus(parts, DictGet(items[i], "corpus"))
             ELSE parts,
             items, i + 1)

\* _extract_ko_txt(payload)
ExtractKoTxt(root) ==
    JoinLines(
        IF IsDict(root) /\ HasKey(root, "corpus")
        THEN WalkCorpus(<<>>, DictGet(root, "corpus"))
        ELSE IF IsList(root) THEN WalkRootItems(<<>>, root.val, 1)
        ELSE <<>>)

\* ---------------------------------------------- read_all_json_files
\* a *.json file: whitespace only, not parseable, or holding a JSON value
BlankFile == [state |-> "blank", val |-> JNull]
BadFile == [state |-> "bad", val |-> JNull]
JsonFile(v) == [state |-> "json", val |-> v]

\* a loop that lets the exception of a file that does not parse escape
RECURSIVE ReadFilesAborting(_, _, _)
ReadFilesAborting(contents, files, i) ==
    IF i > Len(files) THEN [err |-> "none", contents |-> contents]
    ELSE IF files[i].state = "blank" THEN ReadFilesAborting(contents, files, i + 1)
    ELSE IF files[i].state = "bad" THEN [err |-> "JSONDecodeError", contents |-> <<>>]
    ELSE LET merged_ko == ExtractKoTxt(files[i].val)
         IN ReadFilesAborting(
                IF Strip(merged_ko) # <<>> THEN Append(contents, merged_ko) ELSE contents,
                files, i + 1)

\* the for loop of read_all_json_files over files[i..]: a blank file is
\* passed over, an exception is printed and the loop goes on
RECURSIVE ReadFiles(_, _, _)
ReadFiles(contents, files, i) ==
    IF i > Len(files) THEN [err |-> "none", contents |-> contents]
    ELSE IF files[i].state = "blank" THEN ReadFiles(contents, files, i + 1)
    ELSE IF files[i].state = "bad" THEN ReadFiles(contents, files, i + 1)
    ELSE LET merged_ko == ExtractKoTxt(files[i].val)
         IN ReadFiles(
                IF Strip(merged_ko) # <<>> THEN Append(contents, merged_ko) ELSE contents,
                files, i + 1)

\* read_all_json_files on a directory holding files (in sorted order)
ReadAllJsonFiles(files) ==
    IF files = <<>> THEN [err |-> "FileNotFoundError", contents |-> <<>>]
    ELSE ReadFiles(<<>>, files, 1)

\* ------------------------------------------------------------ json_parser
DigitChars == <<"0", "1", "2", "3", "4", "5", "6", "7", "8", "9">>

\* str(n) of a natural number: its decimal digits
RECURSIVE Digits(_)
Digits(n) ==
    IF n < 10 THEN <<DigitChars[n + 1]>>
    ELSE Digits(n \div 10) \o <<DigitChars[(n % 10) + 1]>>

\* repr(v), as str() of a list or of a dict writes its members: a string in
\* quotes, None, a number in digits, a list in brackets, a dict in braces
RECURSIVE PyRepr(_)
RECURSIVE ReprMembers(_, _)
RECURSIVE ReprItems(_, _)
ReprMembers(items, i) ==
    IF i > Len(items) THEN <<>>
    ELSE (IF i > 1 THEN <<",", " ">> ELSE <<>>)
             \o PyRepr(items[i]) \o ReprMembers(items, i + 1)
ReprItems(items, i) ==
    IF i > Len(items) THEN <<>>
    ELSE (IF i > 1 THEN <<",", " ">> ELSE <<>>)
             \o <<"'", items[i].key, "'", ":", " ">> \o PyRepr(items[i].val)
             \o ReprItems(items, i + 1)
PyRepr(v) ==
    IF v.kind = "str" THEN <<"'">> \o v.val \o <<"'">>
    ELSE IF v.kind = "num" THEN Digits(v.val)
    ELSE IF v.kind = "null" THEN <<"N", "o", "n", "e">>
    ELSE IF v.kind = "list" THEN <<"[">> \o ReprMembers(v.val, 1) \o <<"]">>
    ELSE <<"{">> \o ReprItems(v.val, 1) \o <<"}">>

\* str(v): a string is itself, anything else is written as repr writes it
PyStr(v) == IF v.kind = "str" THEN v.val ELSE PyRepr(v)

\* a chunk of the parser: its metadata is kept as its type (the key, the
\* parent key and the array index of the metadata are the labels of the text)
JsonChunk(t, i, type) == [text |-> t, index |-> i, type |-> type]

\* chunk["text"] = f"{label} > {chunk['text']}" for every nested chunk
Prefixed(nested, label) ==
    [j \in 1..Len(nested) |-> [nested[j] EXCEPT !.text = label \o <<" ", ">", " ">> \o @]]

\* f"{key}[{i}]" for the i-th member (from 1) of the list under key
ArrayLabel(key, i) == <<key, "[">> \o Digits(i - 1) \o <<"]">>

RECURSIVE ProcessDictObject(_, _)
RECURSIVE ProcessItems(_, _, _)
RECURSIVE ProcessArray(_, _, _, _)

\* for i, item in enumerate(value), from the i-th member (from 1): st holds
\* chunks and current_index
ProcessArray(st, key, items, i) ==
    IF i > Len(items) THEN st
    ELSE LET item == items[i]
             label == ArrayLabel(key, i)
         IN IF IsStr(item) /\ Strip(item.val) # <<>>
            THEN ProcessArray(
                     [chunks |-> Append(st.chunks,
                          JsonChunk(label \o <<":", " ">> \o item.val,
                                    st.current_index, "array_item")),
                      current_index |-> st.current_index + 1],
                     key, items, i + 1)
            ELSE IF IsDict(item)
            THEN LET nested_chunks == ProcessDictObject(item.val, st.current_index)
                 IN ProcessArray(
                        [chunks |-> st.chunks \o Prefixed(nested_chunks, label),
                         current_index |-> st.current_index + Len(nested_chunks)],
                        key, items, i + 1)
            ELSE ProcessArray(
                     [chunks |-> Append(st.chunks,
                          JsonChunk(label \o <<":", " ">> \o PyStr(item),
                                    st.current_index, "array_converted")),
                      current_index |-> st.current_index + 1],
                     key, items, i + 1)

\* for key, value in obj.items(), from the i-th item
ProcessItems(st, items, i) ==
    IF i > Len(items) THEN st
    ELSE LET key == items[i].key
             value == items[i].val
         IN IF IsStr(value)
            THEN ProcessItems(
                     IF Strip(value.val) # <<>>
                     THEN [chunks |-> Append(st.chunks,
                               JsonChunk(<<key, ":", " ">> \o value.val,
                                         st.current_index, "key_value")),
                           current_index |-> st.current_index + 1]
                     ELSE st,
                     items, i + 1)
            ELSE IF IsDict(value)
            THEN LET nested_chunks == ProcessDictObject(value.val, st.current_index)
                 IN ProcessItems(
                        [chunks |-> st.chunks \o Prefixed(nested_chunks, <<key>>),
                         current_index |-> st.current_index + Len(nested_chunks)],
                        items, i + 1)
            ELSE IF IsList(value)
            THEN ProcessItems(ProcessArray(st, key, value.val, 1), items, i + 1)
            ELSE ProcessItems(
                     [chunks |-> Append(st.chunks,
                          JsonChunk(<<key, ":", " ">> \o PyStr(value),
                                    st.current_index, "converted_value")),
                      current_index |-> st.current_index + 1],
                     items, i + 1)

\* _process_dict_object(obj, start_index), obj given by its items
ProcessDictObject(items, start_index) ==
    ProcessItems([chunks |-> <<>>, current_index |-> start_index], items, 1).chunks

\* for item in data, from the i-th member: st holds chunks and chunk_index
RECURSIVE ParseListItems(_, _, _)
ParseListItems(st, items, i) ==
    IF i > Len(items) THEN st
    ELSE LET item == items[i]
         IN IF IsDict(item)
            THEN LET cks == st.chunks \o ProcessDictObject(item.val, st.chunk_index)
                 IN ParseListItems([chunks |-> cks, chunk_index |-> Len(cks)], items, i + 1)
            ELSE IF IsStr(item)
            THEN ParseListItems(
                     [chunks |-> Append(st.chunks,
                          JsonChunk(item.val, st.chunk_index, "text_item")),
                      chunk_index |-> st.chunk_index + 1],
                     items, i + 1)
            ELSE ParseListItems(
                     [chunks |-> Append(st.chunks,
                          JsonChunk(PyStr(item), st.chunk_index, "converted_item")),
                      chunk_index |-> st.chunk_index + 1],
                     items, i + 1)

\* a path at which there is no file
MissingFile == [state |-> "missing", val |-> JNull]

\* parse_knowledge_json(json_path) on the file at json_path
ParseKnowledgeJson(file) ==
    IF file.state = "missing" THEN [err |-> "FileNotFoundError", chunks |-> <<>>]
    ELSE IF file.state # "json" THEN [err |-> "ValueError", chunks |-> <<>>]
    ELSE LET data == file.val
         IN [err |-> "none",
             chunks |->
                 IF IsDict(data) THEN ProcessDictObject(data.val, 0)
                 ELSE IF IsList(data)
                 THEN ParseListItems([chunks |-> <<>>, chunk_index |-> 0], data.val, 1).chunks
                 ELSE <<JsonChunk(PyStr(data), 0, "converted_data")>>]

\* ------------------------------------------------------------- QnASystem
\* what the answer-generation service returns
LLMAnswer == "llm answer"
\* the fixed answers of the three operations when nothing was retrieved
NothingFound == "no related information found: upload a document or rephrase"
NothingFoundKnowledge == "no related information found in the background knowledge"
NothingFoundPdf == "no related information found in the uploaded document"
\* the fixed answers of the two single-corpus operations without a store
KnowledgeNotReady == "background knowledge is not ready"
NoDocument == "no uploaded document: upload a PDF first"

\* chunk["text"][:200] + "..."
PreviewLen == 200
Preview(t) == Slice(t, 0, PreviewLen) \o <<".", ".", ".">>

\* f"{score:.2f}" of a whole-number distance: its digits and two decimals
Format2f(score) == [whole |-> score, decimals |-> <<"0", "0">>]

SourceRecord(r, type) ==
    [text |-> Preview(r.chunk.text), score |-> Format2f(r.score),
     index |-> r.chunk.index, type |-> type]

Sources(results, type) == [i \in 1..Len(results) |-> SourceRecord(results[i], type)]

\* one section of the context: the numbered chunks of one corpus
Section(label, results) ==
    [i \in 1..Len(results) |-> [label |-> label, ordinal |-> i, text |-> results[i].chunk.text]]

\* a context with the section of the uploaded document first
ContextPartsDocumentFirst(knowledge_results, pdf_results) ==
    (IF pdf_results # <<>>
     THEN <<[header |-> "document"]>> \o Section("document", pdf_results)
     ELSE <<>>)
    \o (IF knowledge_results # <<>>
        THEN <<[header |-> "knowledge"]>> \o Section("knowledge", knowledge_results)
        ELSE <<>>)

\* context_parts: for each corpus that gave results, its header and its section
ContextParts(knowledge_results, pdf_results) ==
    (IF knowledge_results # <<>>
     THEN <<[header |-> "knowledge"]>> \o Section("knowledge", knowledge_results)
     ELSE <<>>)
    \o (IF pdf_results # <<>>
        THEN <<[header |-> "document"]>> \o Section("document", pdf_results)
        ELSE <<>>)

NoStore == [absent |-> TRUE]
IsStore(s) == "absent" \notin DOMAIN s

Raised(err) ==
    [err |-> err, llm_calls |-> 0, knowledge_results |-> <<>>, pdf_results |-> <<>>,
     context |-> <<>>, value |-> [answer |-> "none"]]

\* answer_with_knowledge that returns the fixed answer when either corpus
\* gave nothing
AnswerWithKnowledgeEither(ks, us, question, top_k) ==
    LET kr == IF IsStore(ks) THEN Search(ks, question, top_k, TRUE)
              ELSE [err |-> "none", results |-> <<>>]
        pr == IF IsStore(us) THEN Search(us, question, top_k, TRUE)
              ELSE [err |-> "none", results |-> <<>>]
    IN IF kr.err # "none" THEN Raised(kr.err)
       ELSE IF pr.err # "none" THEN Raised(pr.err)
       ELSE IF kr.results = <<>> \/ pr.results = <<>>
            THEN [err |-> "none", llm_calls |-> 0,
                  knowledge_results |-> kr.results, pdf_results |-> pr.results,
                  context |-> <<>>,
                  value |-> [answer |-> NothingFound,
                             knowledge_sources |-> <<>>, pdf_sources |-> <<>>]]
       ELSE [err |-> "none", llm_calls |-> 1,
             knowledge_results |-> kr.results, pdf_results |-> pr.results,
             context |-> ContextParts(kr.results, pr.results),
             value |-> [answer |-> LLMAnswer,
                        knowledge_sources |-> Sources(kr.results, "knowledge"),
                        pdf_sources |-> Sources(pr.results, "user_pdf")]]

\* answer_with_knowledge that searches the knowledge store for both lists
AnswerWithKnowledgeSameStore(ks, us, question, top_k) ==
    LET kr == IF IsStore(ks) THEN Search(ks, question, top_k, TRUE)
              ELSE [err |-> "none", results |-> <<>>]
        pr == IF IsStore(us) THEN Search(ks, question, top_k, TRUE)
              ELSE [err |-> "none", results |-> <<>>]
    IN IF kr.err # "none" THEN Raised(kr.err)
       ELSE IF pr.err # "none" THEN Raised(pr.err)
       ELSE IF kr.results = <<>> /\ pr.results = <<>>
            THEN [err |-> "none", llm_calls |-> 0,
                  knowledge_results |-> kr.results, pdf_results |-> pr.results,
                  context |-> <<>>,
                  value |-> [answer |-> NothingFound,
                             knowledge_sources |-> <<>>, pdf_sources |-> <<>>]]
       ELSE [err |-> "none", llm_calls |-> 1,
             knowledge_results |-> kr.results, pdf_results |-> pr.results,
             context |-> ContextParts(kr.results, pr.results),
             value |-> [answer |-> LLMAnswer,
                        knowledge_sources |-> Sources(kr.results, "knowledge"),
                        pdf_sources |-> Sources(pr.results, "user_pdf")]]

\* QnASystem.answer_with_knowledge: the locals at the return or the raise,
\* the number of calls of the answer-generation service and the dict returned
AnswerWithKnowledge(ks, us, question, top_k) ==
    LET kr == IF IsStore(ks) THEN Search(ks, question, top_k, TRUE)
              ELSE [err |-> "none", results |-> <<>>]
        pr == IF IsStore(us) THEN Search(us, question, top_k, TRUE)
              ELSE [err |-> "none", results |-> <<>>]
    IN IF kr.err # "none" THEN Raised(kr.err)
       ELSE IF pr.err # "none" THEN Raised(pr.err)
       ELSE IF kr.results = <<>> /\ pr.results = <<>>
            THEN [err |-> "none", llm_calls |-> 0,
                  knowledge_results |-> kr.results, pdf_results |-> pr.results,
                  context |-> <<>>,
                  value |-> [answer |-> NothingFound,
                             knowledge_sources |-> <<>>, pdf_sources |-> <<>>]]
       ELSE [err |-> "none", llm_calls |-> 1,
             knowledge_results |-> kr.results, pdf_results |-> pr.results,
             context |-> ContextParts(kr.results, pr.results),
             value |-> [answer |-> LLMAnswer,
                        knowledge_sources |-> Sources(kr.results, "knowledge"),
                        pdf_sources |-> Sources(pr.results, "user_pdf")]]

\* QnASystem.answer_with_knowledge_only
AnswerWithKnowledgeOnly(ks, question, top_k) ==
    IF ~IsStore(ks)
    THEN [err |-> "none", llm_calls |-> 0, knowledge_results |-> <<>>,
          pdf_results |-> <<>>, context |-> <<>>,
          value |-> [answer |-> KnowledgeNotReady, sources |-> <<>>]]
    ELSE LET r == Search(ks, question, top_k, TRUE)
         IN IF r.err # "none" THEN Raised(r.err)
            ELSE IF r.results = <<>>
                 THEN [err |-> "none", llm_calls |-> 0, knowledge_results |-> <<>>,
                       pdf_results |-> <<>>, context |-> <<>>,
                       value |-> [answer |-> NothingFoundKnowledge, sources |-> <<>>]]
            ELSE [err |-> "none", llm_calls |-> 1, knowledge_results |-> r.results,
                  pdf_results |-> <<>>, context |-> Section("knowledge", r.results),
                  value |-> [answer |-> LLMAnswer,
                             sources |-> Sources(r.results, "knowledge")]]

\* QnASystem.answer_with_pdf_only
AnswerWithPdfOnly(us, question, top_k) ==
    IF ~IsStore(us)
    THEN [err |-> "none", llm_calls |-> 0, knowledge_results |-> <<>>,
          pdf_results |-> <<>>, context |-> <<>>,
          value |-> [answer |-> NoDocument, sources |-> <<>>]]
    ELSE LET r == Search(us, question, top_k, TRUE)
         IN IF r.err # "none" THEN Raised(r.err)
            ELSE IF r.results = <<>>
                 THEN [err |-> "none", llm_calls |-> 0, knowledge_results |-> <<>>,
                       pdf_results |-> <<>>, context |-> <<>>,
                       value |-> [answer |-> NothingFoundPdf, sources |-> <<>>]]
            ELSE [err |-> "none", llm_calls |-> 1, knowledge_results |-> <<>>,
                  pdf_results |-> r.results, context |-> Section("document", r.results),
                  value |-> [answer |-> LLMAnswer,
                             sources |-> Sources(r.results, "user_pdf")]]

\* ---------------------------------------------------- the last call made
NoArg == <<>>
Ret(op, store, path, cks, query, top_k, err, results) ==
    [op |-> op, store |-> store, path |-> path, chunks |-> cks,
     query |-> query, top_k |-> top_k, err |-> err, results |-> results]

\* ------------------------------------------------- VectorStore operations
create_index(s, cks, encOk, addOk) ==
    LET r == CreateIndexOn(stores[s], cks, encOk, addOk)
    IN /\ stores' = [stores EXCEPT ![s] = r.store]
       /\ ret' = Ret("create_index", s, "none", cks, NoArg, 0, r.err, <<>>)
       /\ UNCHANGED <<disk, chunkVars, appVars, parseVars, models, searchVars>>

search(s, query, top_k, encOk) ==
    LET r == Search(stores[s], query, top_k, encOk)
    IN /\ ret' = Ret("search", s, "none", NoArg, query, top_k, r.err, r.results)
       /\ UNCHANGED <<stores, disk, chunkVars, appVars, parseVars, models, searchVars>>

save(s, p, fault) ==
    LET r == SaveTo(stores[s], disk[p], fault)
    IN /\ disk' = [disk EXCEPT ![p] = r.dir]
       /\ ret' = Ret("save", s, p, NoArg, NoArg, 0, r.err, <<>>)
       /\ UNCHANGED <<stores, chunkVars, appVars, parseVars, models, searchVars>>

load(s, p) ==
    LET r == LoadFrom(stores[s], disk[p])
    IN /\ stores' = [stores EXCEPT ![s] = r.store]
       /\ ret' = Ret("load", s, p, NoArg, NoArg, 0, r.err, <<>>)
       /\ UNCHANGED <<disk, chunkVars, appVars, parseVars, models, searchVars>>

\* ------------------------------------------------------------------------
\* Spec: one VectorStore object and one index directory, driven by an
\* arbitrary caller of create_index / search / save / load.
\* ------------------------------------------------------------------------
InitRet == Ret("init", "none", "none", NoArg, NoArg, 0, "none", <<>>)

\* no browser session and no cached RAGSystem
SessionIds == {"s1", "s2"}
FileNames == {"lecture.pdf"}
NoFile == [exists |-> FALSE, content |-> <<>>]
File(t) == [exists |-> TRUE, content |-> t]
\* the value of the st.file_uploader widget
NoUpload == [set |-> FALSE, name |-> "none", content |-> <<>>]
Upload(f, t) == [set |-> TRUE, name |-> f, content |-> t]
\* open: uploads_initialized is set; rag_system: it is not None; uploaded:
\* the texts of the documents the session has put into its uploader
NoSession ==
    [open |-> FALSE, rag_system |-> FALSE, indexed |-> FALSE,
     knowledge_loaded |-> FALSE, uploaded_file |-> NoUpload, uploaded |-> {}]
AppIdle ==
    /\ sessions = [s \in SessionIds |-> NoSession]
    /\ rag_cached = FALSE
    /\ uploads = [f \in FileNames |-> NoFile]

\* no call of the extractor or of the parser in progress
NoCall == [fn |-> "none", arg |-> <<>>]
ParserIdle == payload = NoCall

\* the callers of search and the locals of a call that has not begun
CallerIds == {"c1", "c2"}
NoSearch ==
    [pc |-> "idle", query |-> <<>>, top_k |-> 0, query_embedding |-> <<>>,
     pairs |-> <<>>, i |-> 0, results |-> <<>>, err |-> "none"]
SearchIdle == callers = [c \in CallerIds |-> NoSearch]

\* no call of chunk_text in progress
ChunkerIdle ==
    /\ text = <<>> /\ chunk_size = 0 /\ overlap = 0
    /\ start = 0 /\ chunks = <<>> /\ pc = "idle"

Init ==
    /\ stores = [s \in {"user"} |-> NewStore]
    /\ disk = [p \in {"user_pdf_vectorstore"} |-> EmptyDir]
    /\ ret = InitRet
    /\ models = EachOwnModel(DOMAIN stores)
    /\ SearchIdle
    /\ ChunkerIdle
    /\ AppIdle
    /\ ParserIdle

Next ==
    \/ \E s \in DOMAIN stores, c \in ChunkLists, encOk \in BOOLEAN, addOk \in BOOLEAN :
           create_index(s, c, encOk, addOk)
    \/ \E s \in DOMAIN stores, q \in Queries, k \in TopKs, encOk \in BOOLEAN :
           search(s, q, k, encOk)
    \/ \E s \in DOMAIN stores, p \in DOMAIN disk, f \in SaveFaults : save(s, p, f)
    \/ \E s \in DOMAIN stores, p \in DOMAIN disk : load(s, p)

Spec == Init /\ [][Next]_vars

\* ------------------------------------------------------------------------
\* SpecPair: two VectorStore objects sharing one index directory, so that
\* one object can load what the other saved.  Every save runs to its end;
\* Spec has the saves that stop partway.
\* ------------------------------------------------------------------------
InitPair ==
    /\ stores = [s \in StoreIds |-> NewStore]
    /\ disk = [p \in {"user_pdf_vectorstore"} |-> EmptyDir]
    /\ ret = InitRet
    /\ models = EachOwnModel(DOMAIN stores)
    /\ SearchIdle
    /\ ChunkerIdle
    /\ AppIdle
    /\ ParserIdle

NextPair ==
    \/ \E s \in DOMAIN stores, c \in ChunkLists, encOk \in BOOLEAN, addOk \in BOOLEAN :
           create_index(s, c, encOk, addOk)
    \/ \E s \in DOMAIN stores, p \in DOMAIN disk : save(s, p, "none")
    \/ \E s \in DOMAIN stores, p \in DOMAIN disk : load(s, p)

SpecPair == InitPair /\ [][NextPair]_vars

\* ------------------------------------------------------------------------
\* SpecPersist: one VectorStore object whose builds all complete, and one
\* index directory whose saves may stop before, between or inside the
\* writes of the two files.
\* ------------------------------------------------------------------------
InitPersist ==
    /\ stores = [s \in {"user"} |-> NewStore]
    /\ disk = [p \in {"user_pdf_vectorstore"} |-> EmptyDir]
    /\ ret = InitRet
    /\ models = EachOwnModel(DOMAIN stores)
    /\ SearchIdle
    /\ ChunkerIdle
    /\ AppIdle
    /\ ParserIdle

NextPersist ==
    \/ \E s \in DOMAIN stores, c \in ChunkLists \ {<<>>} : create_index(s, c, TRUE, TRUE)
    \/ \E s \in DOMAIN stores, q \in Queries, k \in TopKs : search(s, q, k, TRUE)
    \/ \E s \in DOMAIN stores, p \in DOMAIN disk, f \in SaveFaults : save(s, p, f)
    \/ \E s \in DOMAIN stores, p \in DOMAIN disk : load(s, p)

SpecPersist == InitPersist /\ [][NextPersist]_vars

\* ------------------------------------------------------------------------
\* SpecRag: one RAGSystem (its knowledge store and its user store) and the
\* knowledge index directory that the knowledge indexer writes.  The
\* embedding model, the file system and the answer-generation service work.
\* ------------------------------------------------------------------------
KnowledgePath == "knowledge_vectorstore"

\* the defaults of chunk_text and of index_user_pdf
DefaultOverlap == 50
DefaultChunkSize == 500

\* chunk sizes a caller of index_user_pdf passes (chunk_text keeps its
\* default overlap, so a chunk_size up to the overlap never returns)
ChunkSizes == {DefaultOverlap + 1, DefaultChunkSize}

DocTexts == SeqsUpTo({"a", " "}, MaxDocLen)

\* the text each JSON file of the knowledge directory contributes
KnowledgeDocs == {<<"k">>}

\* write_merged_file: "\n\n".join(docs)
RECURSIVE JoinDocs(_)
JoinDocs(docs) ==
    IF docs = <<>> THEN <<>>
    ELSE IF Len(docs) = 1 THEN docs[1]
    ELSE docs[1] \o <<"\n", "\n">> \o JoinDocs(Tail(docs))

\* merged.txt as write_merged_file leaves it
MergedTexts == {JoinDocs(docs) : docs \in SeqsUpTo(KnowledgeDocs, MaxDocs)}

InitRag ==
    /\ stores = [s \in StoreIds |-> NewStore]
    /\ disk = [p \in {KnowledgePath} |-> EmptyDir]
    /\ ret = InitRet
    /\ models = EachOwnModel(DOMAIN stores)
    /\ SearchIdle
    /\ ChunkerIdle
    /\ AppIdle
    /\ ParserIdle

\* knowledge_indexer.build_index_from_merged on a merged.txt holding t
build_index_from_merged(t) ==
    LET cl == MergedChunks(t)
        built == CreateIndexOn(NewStore, cl, TRUE, TRUE).store
        saved == SaveTo(built, disk[KnowledgePath], "none")
    IN /\ IF cl = <<>>
          THEN /\ ret' = Ret("build_index_from_merged", "none", KnowledgePath, cl,
                              NoArg, 0, "ValueError", <<>>)
               /\ UNCHANGED disk
          ELSE /\ ret' = Ret("build_index_from_merged", "none", KnowledgePath, cl,
                              NoArg, 0, saved.err, <<>>)
               /\ disk' = [disk EXCEPT ![KnowledgePath] = saved.dir]
       /\ UNCHANGED <<stores, chunkVars, appVars, parseVars, models, searchVars>>

\* RAGSystem.load_knowledge_index
load_knowledge_index ==
    LET r == LoadFrom(stores["knowledge"], disk[KnowledgePath])
    IN /\ stores' = [stores EXCEPT !["knowledge"] = r.store]
       /\ ret' = Ret("load_knowledge_index", "knowledge", KnowledgePath, NoArg,
                      NoArg, 0, r.err, <<>>)
       /\ UNCHANGED <<disk, chunkVars, appVars, parseVars, models, searchVars>>

\* RAGSystem.index_user_pdf on a PDF whose extracted text is t
index_user_pdf(t, size, addOk) ==
    LET cl == ChunkText(t, size, DefaultOverlap)
        r == CreateIndexOn(stores["user"], cl, TRUE, addOk)
    IN /\ stores' = [stores EXCEPT !["user"] = r.store]
       /\ ret' = Ret("index_user_pdf", "user", "none", cl, NoArg, 0, r.err,
                      IF r.err = "none" THEN <<Len(cl)>> ELSE <<>>)
       /\ UNCHANGED <<disk, chunkVars, appVars, parseVars, models, searchVars>>

\* RAGSystem.qna_with_knowledge
qna_with_knowledge(question, top_k) ==
    LET r == AnswerWithKnowledge(stores["knowledge"], stores["user"], question, top_k)
    IN /\ ret' = Ret("qna_with_knowledge", "none", "none", NoArg, question, top_k, r.err, r)
       /\ UNCHANGED <<stores, disk, chunkVars, appVars, parseVars, models, searchVars>>

\* RAGSystem.qna_with_knowledge_only
qna_with_knowledge_only(question, top_k) ==
    LET r == AnswerWithKnowledgeOnly(stores["knowledge"], question, top_k)
    IN /\ ret' = Ret("qna_with_knowledge_only", "none", "none", NoArg, question, top_k,
                      r.err, r)
       /\ UNCHANGED <<stores, disk, chunkVars, appVars, parseVars, models, searchVars>>

\* RAGSystem.qna_with_pdf_only
qna_with_pdf_only(question, top_k) ==
    LET r == AnswerWithPdfOnly(stores["user"], question, top_k)
    IN /\ ret' = Ret("qna_with_pdf_only", "none", "none", NoArg, question, top_k, r.err, r)
       /\ UNCHANGED <<stores, disk, chunkVars, appVars, parseVars, models, searchVars>>

NextRag ==
    \/ \E t \in MergedTexts : build_index_from_merged(t)
    \/ load_knowledge_index
    \/ \E t \in DocTexts, size \in ChunkSizes, addOk \in BOOLEAN : index_user_pdf(t, size, addOk)
    \/ \E q \in Queries, k \in TopKs : qna_with_knowledge(q, k)
    \/ \E q \in Queries, k \in TopKs : qna_with_knowledge_only(q, k)
    \/ \E q \in Queries, k \in TopKs : qna_with_pdf_only(q, k)

SpecRag == InitRag /\ [][NextRag]_vars

\* ------------------------------------------------------------------------
\* SpecApp: the Streamlit script of frontend/app.py, run once per action
\* for one browser session, over the RAGSystem that st.cache_resource
\* shares between the sessions of the process.  The knowledge index was
\* built before the app starts, or is missing.
\* ------------------------------------------------------------------------
UserPath == "user_pdf_vectorstore"

\* the texts of the PDFs the users upload (none of them blank)
UploadTexts == {<<"a">>, <<"b">>}

\* the knowledge index directory written by the knowledge indexer
BuiltDir(t) ==
    SaveTo(CreateIndexOn(NewStore, MergedChunks(t), TRUE, TRUE).store, EmptyDir, "none").dir

InitApp ==
    /\ stores = [s \in StoreIds |-> NewStore]
    /\ \E kd \in {EmptyDir, BuiltDir(<<"k", "\n", "\n", "k">>)} :
           disk = [p \in {KnowledgePath, UserPath} |->
                      IF p = KnowledgePath THEN kd ELSE EmptyDir]
    /\ ret = InitRet
    /\ models = [s \in StoreIds |-> NoModel]
    /\ SearchIdle
    /\ ChunkerIdle
    /\ AppIdle
    /\ ParserIdle

\* (dir / "index.faiss").exists() and (dir / "chunks.pkl").exists()
HasIndexFiles(dir) == dir.faiss.exists /\ dir.pkl.state # "absent"

\* RAGSystem.__init__: two new stores, and the knowledge index loaded when
\* its directory exists, a failure of that load being printed and dropped
Construct(d) ==
    [s \in StoreIds |->
        IF s = "knowledge" THEN LoadFrom(NewStore, d[KnowledgePath]).store ELSE NewStore]

\* the state a script run threads through its statements; halt is "run"
\* until st.stop(), st.rerun() or an uncaught exception ends the run
RunState(s) ==
    [sess |-> sessions[s], stores |-> stores, cached |-> rag_cached,
     uploads |-> uploads, disk |-> disk, halt |-> "run", out |-> <<>>]

\* first run of a session: ./data/uploads and the user index directory are
\* removed, then the session state gets its defaults
StepInit(st) ==
    IF st.sess.open THEN st
    ELSE [st EXCEPT !.uploads = [f \in FileNames |-> NoFile],
                    !.disk = [st.disk EXCEPT ![UserPath] = EmptyDir],
                    !.sess = [NoSession EXCEPT !.open = TRUE]]

\* the sidebar stops the run when the knowledge index files are missing
StepKnowledgeCheck(st) ==
    IF st.halt # "run" THEN st
    ELSE IF ~HasIndexFiles(st.disk[KnowledgePath]) THEN [st EXCEPT !.halt = "stopped"]
    ELSE st

\* rag_system is None: take the cached RAGSystem (get_rag_system builds it
\* once) and load the knowledge index into it
StepEnsureRag(st) ==
    IF st.halt # "run" \/ st.sess.rag_system THEN st
    ELSE LET rag == IF st.cached THEN st.stores ELSE Construct(st.disk)
             r == LoadFrom(rag["knowledge"], st.disk[KnowledgePath])
         IN [st EXCEPT !.cached = TRUE,
                       !.stores = [rag EXCEPT !["knowledge"] = r.store],
                       !.sess = [st.sess EXCEPT !.rag_system = TRUE,
                                                !.knowledge_loaded = (r.err = "none")],
                       !.halt = IF r.err = "none" THEN "run" ELSE "stopped"]

\* index_user_pdf(file_path) then save_user_pdf_index() inside the try of
\* the upload branches: on success indexed is set, the uploader is
\* replaced by a new one and the script reruns
IndexAndSave(st, content) ==
    LET cl == ChunkText(content, DefaultChunkSize, DefaultOverlap)
        r == CreateIndexOn(st.stores["user"], cl, TRUE, TRUE)
        sv == SaveTo(r.store, st.disk[UserPath], "none")
        st1 == [st EXCEPT !.stores = [st.stores EXCEPT !["user"] = r.store]]
    IN IF r.err # "none" THEN st1
       ELSE IF sv.err # "none" THEN [st1 EXCEPT !.disk = [st.disk EXCEPT ![UserPath] = sv.dir]]
       ELSE [st1 EXCEPT !.disk = [st.disk EXCEPT ![UserPath] = sv.dir],
                        !.sess = [st.sess EXCEPT !.indexed = TRUE,
                                                 !.uploaded_file = NoUpload],
                        !.halt = "rerun"]

\* `if uploaded_file:` of the sidebar
StepUpload(st, has_user_pdf_index, click) ==
    IF st.halt # "run" \/ ~st.sess.uploaded_file.set THEN st
    ELSE LET up == st.sess.uploaded_file
             file == st.uploads[up.name]
         IN IF ~file.exists \/ Len(file.content) # Len(up.content)
            THEN IndexAndSave([st EXCEPT !.uploads = [st.uploads EXCEPT ![up.name] = File(up.content)]],
                              up.content)
            ELSE IF has_user_pdf_index
                 THEN (IF click THEN IndexAndSave(st, file.content) ELSE st)
            ELSE IndexAndSave(st, file.content)

\* the reset button
StepReset(st, kind) ==
    IF st.halt # "run" \/ kind # "reset" THEN st
    ELSE [st EXCEPT !.sess = [st.sess EXCEPT !.indexed = FALSE], !.halt = "rerun"]

\* `if user_input:` of the chat
StepAsk(st, kind, question, top_k) ==
    IF st.halt # "run" \/ kind # "ask" THEN st
    ELSE LET r == IF st.sess.indexed
                  THEN AnswerWithKnowledge(st.stores["knowledge"], st.stores["user"],
                                           question, top_k)
                  ELSE AnswerWithKnowledgeOnly(st.stores["knowledge"], question, top_k)
         IN [st EXCEPT !.out = r, !.halt = IF r.err = "none" THEN "rerun" ELSE r.err]

\* one run of the script for session s
Run(s, st0, kind, click, question, top_k) ==
    \E st1 \in {StepInit(st0)} :
    \E st2 \in {StepEnsureRag(StepKnowledgeCheck(st1))} :
    \E st3 \in {StepUpload(st2, HasIndexFiles(st1.disk[UserPath]), click)} :
    \E st4 \in {StepAsk(StepReset(st3, kind), kind, question, top_k)} :
       /\ sessions' = [sessions EXCEPT ![s] = st4.sess]
       /\ stores' = st4.stores
       /\ rag_cached' = st4.cached
       /\ uploads' = st4.uploads
       /\ disk' = st4.disk
       /\ ret' = Ret(kind, s, "none", NoArg, question, top_k, st4.halt, st4.out)
       /\ models' = IF st4.cached /\ ~rag_cached THEN EachOwnModel(StoreIds) ELSE models
       /\ UNCHANGED <<chunkVars, parseVars, searchVars>>

\* a browser opens the page, or a run without a new widget value
app_load(s) ==
    /\ s \in SessionIds
    /\ Run(s, RunState(s), "load", FALSE, NoArg, 0)

\* the user of an open session puts the PDF f with text t into the uploader
app_upload(s, f, t) ==
    /\ sessions[s].open
    /\ Run(s, [RunState(s) EXCEPT !.sess.uploaded_file = Upload(f, t),
                                   !.sess.uploaded = @ \cup {t}],
           "upload", FALSE, NoArg, 0)

\* the user presses the button that restarts the indexing
app_click(s) ==
    /\ sessions[s].open
    /\ sessions[s].uploaded_file.set
    /\ Run(s, RunState(s), "click", TRUE, NoArg, 0)

\* the user presses the reset button
app_reset(s) ==
    /\ sessions[s].open
    /\ Run(s, RunState(s), "reset", FALSE, NoArg, 0)

\* the user sends a question
app_ask(s, question, top_k) ==
    /\ sessions[s].open
    /\ Run(s, RunState(s), "ask", FALSE, question, top_k)

NextApp ==
    \/ \E s \in SessionIds : app_load(s)
    \/ \E s \in SessionIds, f \in FileNames, t \in UploadTexts :
           app_upload(s, f, t)
    \/ \E s \in SessionIds : app_click(s)
    \/ \E s \in SessionIds : app_reset(s)
    \/ \E s \in SessionIds, q \in Queries, k \in TopKs :
           app_ask(s, q, k)

SpecApp == InitApp /\ [][NextApp]_vars

\* ------------------------------------------------------------------------
\* SpecInit: the construction of a RAGSystem over a knowledge index
\* directory that the knowledge indexer has written, completely or up to
\* the point where its save stopped, or has not written at all.
\* ------------------------------------------------------------------------
\* the directory after build_index_from_merged on t whose save hit fault f
BuiltDirUpTo(t, f) ==
    SaveTo(CreateIndexOn(NewStore, MergedChunks(t), TRUE, TRUE).store, EmptyDir, f).dir

KnowledgeDirs ==
    {EmptyDir} \cup {BuiltDirUpTo(t, f) : t \in MergedTexts \ {<<>>}, f \in SaveFaults}

InitInit ==
    /\ stores = [s \in StoreIds |-> NewStore]
    /\ \E kd \in KnowledgeDirs : disk = [p \in {KnowledgePath} |-> kd]
    /\ ret = InitRet
    /\ models = [s \in StoreIds |-> NoModel]
    /\ SearchIdle
    /\ ChunkerIdle
    /\ AppIdle
    /\ ParserIdle

\* RAGSystem(...): __init__ makes the two stores and loads the knowledge
\* index inside a try whose except clause prints the exception and goes on,
\* so the constructor returns normally whatever the load did
rag_init ==
    /\ stores' = Construct(disk)
    /\ models' = EachOwnModel(StoreIds)
    /\ ret' = Ret("RAGSystem", "knowledge", KnowledgePath, NoArg, NoArg, 0, "none", <<>>)
    /\ UNCHANGED <<disk, chunkVars, appVars, parseVars, searchVars>>

NextInit ==
    \/ rag_init
    \/ load_knowledge_index
    \/ \E t \in MergedTexts : build_index_from_merged(t)
    \/ \E q \in Queries, k \in TopKs : qna_with_knowledge_only(q, k)

SpecInit == InitInit /\ [][NextInit]_vars

\* ------------------------------------------------------------------------
\* SpecExtract: one call of _extract_ko_txt on a parsed JSON document, or
\* of read_all_json_files on the files of a directory.
\* ------------------------------------------------------------------------
\* ko_txt values: a text, a text with blanks around it, a blank text
TxtA == <<"A">>
TxtPaddedB == <<" ", "B", " ">>
TxtBlank == <<" ">>

KoItem(v) == JDict(<<Item("ko_txt", v)>>)
Entry(ko_info) == JDict(<<Item("ko_info", ko_info)>>)
Document(corpus) == JDict(<<Item("corpus", corpus)>>)

\* documents of the schema: ko_info and corpus each an object or a sequence,
\* the root a document or a sequence of documents
GoodItems == {KoItem(JStr(t)) : t \in {TxtA, TxtPaddedB, TxtBlank}}
GoodKoInfos == GoodItems \cup {JList(q) : q \in SeqsUpTo(GoodItems, MaxKoInfo)}
GoodEntries == {Entry(k) : k \in GoodKoInfos}
\* the entries of a corpus that is a sequence: ko_info an object, or a
\* sequence of non-blank texts
ListEntries ==
    {Entry(k) : k \in GoodItems \cup
        {JList(q) : q \in SeqsUpTo({KoItem(JStr(TxtA)), KoItem(JStr(TxtPaddedB))}, MaxKoInfo)}}
GoodCorpora == GoodEntries \cup {JList(q) : q \in SeqsUpTo(ListEntries, MaxEntries)}
GoodRoots ==
    {Document(c) : c \in GoodCorpora}
        \cup {JList(q) : q \in SeqsUpTo({Document(Entry(i)) : i \in GoodItems}, MaxEntries)}

\* corpus entries of which some are malformed
EntryA == Entry(JList(<<KoItem(JStr(TxtA))>>))
EntryB == Entry(KoItem(JStr(TxtPaddedB)))
MalformedEntries ==
    {JDict(<<>>),                                  \* no ko_info
     JDict(<<Item("title", JStr(TxtA))>>),         \* no ko_info, another key
     Entry(JNull),                                 \* ko_info neither object nor sequence
     Entry(KoItem(JNum(1))),                       \* ko_txt not a string
     Entry(JList(<<JNum(1), JDict(<<>>)>>)),       \* items without ko_txt
     JNum(5)}                                      \* entry not an object
MixedCorpora == {JList(q) : q \in SeqsUpTo({EntryA, EntryB} \cup MalformedEntries, MaxSiblings)}

\* root documents of which some have no corpus
MalformedDocuments == {JDict(<<>>), JStr(TxtA), Document(JStr(TxtA))}
MixedRoots ==
    {Document(c) : c \in MixedCorpora}
        \cup {JList(q) : q \in SeqsUpTo({Document(EntryA), Document(EntryB)}
                                           \cup MalformedDocuments, MaxSiblings)}

\* directories of which some files are blank or do not parse
Batches ==
    SeqsUpTo({BlankFile, BadFile, JsonFile(Document(EntryA)),
              JsonFile(Document(EntryB)), JsonFile(JDict(<<>>))}, MaxSiblings)

InitExtract ==
    /\ stores = [s \in {"user"} |-> NewStore]
    /\ disk = [p \in {"user_pdf_vectorstore"} |-> EmptyDir]
    /\ ret = InitRet
    /\ models = EachOwnModel(DOMAIN stores)
    /\ SearchIdle
    /\ payload \in {[fn |-> "_extract_ko_txt", arg |-> r] : r \in GoodRoots \cup MixedRoots}
                     \cup {[fn |-> "read_all_json_files", arg |-> b] : b \in Batches}
    /\ ChunkerIdle
    /\ AppIdle

extract_ko_txt ==
    /\ payload.fn = "_extract_ko_txt"
    /\ ret.op = "init"
    /\ ret' = Ret("_extract_ko_txt", "none", "none", NoArg, NoArg, 0, "none",
                   ExtractKoTxt(payload.arg))
    /\ UNCHANGED <<stores, disk, chunkVars, appVars, parseVars, models, searchVars>>

read_all_json_files ==
    /\ payload.fn = "read_all_json_files"
    /\ ret.op = "init"
    /\ LET r == ReadAllJsonFiles(payload.arg)
       IN ret' = Ret("read_all_json_files", "none", "none", NoArg, NoArg, 0, r.err,
                      r.contents)
    /\ UNCHANGED <<stores, disk, chunkVars, appVars, parseVars, models, searchVars>>

NextExtract == extract_ko_txt \/ read_all_json_files

SpecExtract == InitExtract /\ [][NextExtract]_vars

\* ------------------------------------------------------------------------
\* SpecJson: one call of parse_knowledge_json on a file: missing, not
\* parseable, or holding a JSON value: a scalar, an object or a sequence, with
\* scalars, objects and sequences nested in them.
\* ------------------------------------------------------------------------
Scalars == {JStr(<<"x">>), JStr(<<" ">>), JNum(7), JNull}
ScalarLists == {JList(q) : q \in SeqsUpTo(Scalars, MaxItems)}
ScalarDicts == {JDict(<<Item("c", v)>>) : v \in Scalars}

\* members of a sequence that are containers themselves, or a text
NestedMembers ==
    {JList(<<JStr(<<"x">>), JNum(7)>>), JList(<<>>), JDict(<<Item("c", JStr(<<"x">>))>>),
     JDict(<<Item("c", JStr(<<" ">>))>>), JStr(<<"x">>)}

DictRoots ==
    {JDict(<<Item("a", v)>>) : v \in Scalars \cup ScalarLists \cup ScalarDicts}
        \cup {JDict(<<Item("a", v), Item("b", w)>>) :
                  v \in Scalars \cup ScalarLists \cup ScalarDicts, w \in Scalars}
        \cup {JDict(<<Item("a", JList(q))>>) : q \in SeqsUpTo(NestedMembers, MaxItems)}
        \cup {JDict(<<Item("a", JDict(<<Item("b", JList(q))>>))>>) :
                  q \in SeqsUpTo({JStr(<<"x">>), JNum(7)}, MaxItems)}

ListRoots ==
    {JList(q) : q \in SeqsUpTo(Scalars \cup {JDict(<<Item("a", v)>>) : v \in Scalars}
                                   \cup {JList(<<JStr(<<"x">>)>>)}, MaxItems)}

JsonFiles == {MissingFile, BadFile} \cup {JsonFile(v) : v \in Scalars \cup DictRoots \cup ListRoots}

InitJson ==
    /\ stores = [s \in {"user"} |-> NewStore]
    /\ disk = [p \in {"user_pdf_vectorstore"} |-> EmptyDir]
    /\ ret = InitRet
    /\ models = EachOwnModel(DOMAIN stores)
    /\ SearchIdle
    /\ payload \in {[fn |-> "parse_knowledge_json", arg |-> f] : f \in JsonFiles}
    /\ ChunkerIdle
    /\ AppIdle

parse_knowledge_json ==
    /\ payload.fn = "parse_knowledge_json"
    /\ ret.op = "init"
    /\ LET r == ParseKnowledgeJson(payload.arg)
       IN ret' = Ret("parse_knowledge_json", "none", "none", NoArg, NoArg, 0, r.err,
                      r.chunks)
    /\ UNCHANGED <<stores, disk, chunkVars, appVars, parseVars, models, searchVars>>

NextJson == parse_knowledge_json

SpecJson == InitJson /\ [][NextJson]_vars

\* ------------------------------------------------------------------------
\* SpecMerged: one call of build_index_from_merged on a merged.txt holding
\* any text of letters, blanks and newlines up to MaxMergedLen.
\* ------------------------------------------------------------------------
MergedAlphabet == {"a", " ", "\n"}

InitMerged ==
    /\ stores = [s \in StoreIds |-> NewStore]
    /\ disk = [p \in {KnowledgePath} |-> EmptyDir]
    /\ ret = InitRet
    /\ models = EachOwnModel(DOMAIN stores)
    /\ SearchIdle
    /\ payload \in {[fn |-> "build_index_from_merged", arg |-> t] :
                        t \in SeqsUpTo(MergedAlphabet, MaxMergedLen)}
    /\ ChunkerIdle
    /\ AppIdle

index_merged_file ==
    /\ payload.fn = "build_index_from_merged"
    /\ ret.op = "init"
    /\ build_index_from_merged(payload.arg)

NextMerged == index_merged_file

SpecMerged == InitMerged /\ [][NextMerged]_vars

\* ------------------------------------------------------------------------
\* SpecSearch: the callers of CallerIds each run VectorStore.search once on
\* the same store, one statement per step, their steps interleaved in every
\* order; nothing else runs.  The store is new or was built from a list.
\* ------------------------------------------------------------------------
\* a pass that puts the new result before the ones collected so far
CollectOneInFront(res, p, cks) ==
    IF ~Keeps(p, cks) THEN [results |-> res, err |-> "none"]
    ELSE IF ~PyInRange(cks, p.idx) THEN [results |-> <<>>, err |-> "IndexError"]
    ELSE [results |-> <<[chunk |-> PyItem(cks, p.idx), score |-> p.dist]>> \o res,
          err |-> "none"]

\* one pass of the result loop of search for the pair p
CollectOne(res, p, cks) ==
    IF ~Keeps(p, cks) THEN [results |-> res, err |-> "none"]
    ELSE IF ~PyInRange(cks, p.idx) THEN [results |-> <<>>, err |-> "IndexError"]
    ELSE [results |-> Append(res, [chunk |-> PyItem(cks, p.idx), score |-> p.dist]),
          err |-> "none"]

InitSearch ==
    /\ \E cl \in ChunkLists :
           stores = [s \in {"user"} |->
                        IF cl = <<>> THEN NewStore
                        ELSE CreateIndexOn(NewStore, cl, TRUE, TRUE).store]
    /\ disk = [p \in {"user_pdf_vectorstore"} |-> EmptyDir]
    /\ ret = InitRet
    /\ models = EachOwnModel(DOMAIN stores)
    /\ SearchIdle
    /\ ChunkerIdle
    /\ AppIdle
    /\ ParserIdle

\* the call and `if self.index is None: return []`
search_enter(c, q, k) ==
    /\ callers[c].pc = "idle"
    /\ callers' = [callers EXCEPT ![c] =
           [NoSearch EXCEPT !.query = q, !.top_k = k,
                            !.pc = IF stores["user"].index.none THEN "done" ELSE "encode"]]
    /\ UNCHANGED <<stores, disk, ret, chunkVars, appVars, parseVars, models>>

\* query_embedding = self.model.encode([query])
search_encode(c) ==
    /\ callers[c].pc = "encode"
    /\ callers' = [callers EXCEPT ![c].query_embedding = Encode(callers[c].query),
                                  ![c].pc = "index_search"]
    /\ UNCHANGED <<stores, disk, ret, chunkVars, appVars, parseVars, models>>

\* distances, indices = self.index.search(query_embedding, top_k)
search_index(c) ==
    /\ callers[c].pc = "index_search"
    /\ callers' = [callers EXCEPT
           ![c].pairs = IndexSearch(stores["user"].index.xb, callers[c].query_embedding,
                                    callers[c].top_k),
           ![c].i = 1,
           ![c].pc = "loop"]
    /\ UNCHANGED <<stores, disk, ret, chunkVars, appVars, parseVars, models>>

\* one pass of `for dist, idx in zip(distances[0], indices[0])`
search_loop(c) ==
    /\ callers[c].pc = "loop"
    /\ callers[c].i <= Len(callers[c].pairs)
    /\ LET r == CollectOne(callers[c].results, callers[c].pairs[callers[c].i],
                           stores["user"].chunks)
       IN callers' = [callers EXCEPT ![c].results = r.results,
                                     ![c].err = r.err,
                                     ![c].i = @ + 1,
                                     ![c].pc = IF r.err = "none" THEN "loop" ELSE "done"]
    /\ UNCHANGED <<stores, disk, ret, chunkVars, appVars, parseVars, models>>

\* return results
search_return(c) ==
    /\ callers[c].pc = "loop"
    /\ callers[c].i > Len(callers[c].pairs)
    /\ callers' = [callers EXCEPT ![c].pc = "done"]
    /\ UNCHANGED <<stores, disk, ret, chunkVars, appVars, parseVars, models>>

NextSearch ==
    \/ \E c \in CallerIds, q \in Queries, k \in TopKs : search_enter(c, q, k)
    \/ \E c \in CallerIds : search_encode(c)
    \/ \E c \in CallerIds : search_index(c)
    \/ \E c \in CallerIds : search_loop(c)
    \/ \E c \in CallerIds : search_return(c)

SpecSearch == InitSearch /\ [][NextSearch]_vars

\* ------------------------------------------------------------------------
\* SpecMain: one run of main() of knowledge_indexer.py on a directory of
\* JSON files: read_all_json_files, write_merged_file and, with
\* --build-index, build_index_from_merged on the file just written.
\* ------------------------------------------------------------------------
\* ko_txt values: one line, padded, two lines, two paragraphs, blank
KoTxtValues ==
    {<<"A">>, <<" ", "B">>, <<"A", "\n", "B">>, <<"A", "\n", "\n", "B">>, <<" ">>}

\* the files of the directory: a document with one ko_txt, a document with
\* two, a file that does not parse
DirFiles ==
    {JsonFile(Document(Entry(KoItem(JStr(t))))) : t \in KoTxtValues}
        \cup {JsonFile(Document(Entry(JList(<<KoItem(JStr(<<"A">>)), KoItem(JStr(<<"B">>))>>)))),
              BadFile}

InitMain ==
    /\ stores = [s \in StoreIds |-> NewStore]
    /\ disk = [p \in {KnowledgePath} |-> EmptyDir]
    /\ ret = InitRet
    /\ models = EachOwnModel(DOMAIN stores)
    /\ SearchIdle
    /\ payload \in {[fn |-> "main", arg |-> b, build_index |-> f] :
                        b \in SeqsUpTo(DirFiles, MaxSiblings), f \in BOOLEAN}
    /\ ChunkerIdle
    /\ AppIdle

main ==
    /\ payload.fn = "main"
    /\ ret.op = "init"
    /\ LET r == ReadAllJsonFiles(payload.arg)
           merged == JoinDocs(r.contents)
           cl == MergedChunks(merged)
           built == CreateIndexOn(NewStore, cl, TRUE, TRUE).store
           saved == SaveTo(built, disk[KnowledgePath], "none")
       IN IF r.err # "none"
          THEN /\ ret' = Ret("main", "none", KnowledgePath, NoArg, NoArg, 0, r.err, <<>>)
               /\ UNCHANGED disk
          ELSE IF ~payload.build_index
          THEN /\ ret' = Ret("main", "none", KnowledgePath, NoArg, NoArg, 0, "none",
                              r.contents)
               /\ UNCHANGED disk
          ELSE IF cl = <<>>
          THEN /\ ret' = Ret("main", "none", KnowledgePath, cl, NoArg, 0, "ValueError",
                              r.contents)
               /\ UNCHANGED disk
          ELSE /\ ret' = Ret("main", "none", KnowledgePath, cl, NoArg, 0, saved.err,
                              r.contents)
               /\ disk' = [disk EXCEPT ![KnowledgePath] = saved.dir]
    /\ UNCHANGED <<stores, chunkVars, appVars, parseVars, models, searchVars>>

NextMain == main

SpecMain == InitMain /\ [][NextMain]_vars

\* ------------------------------------------------------------------------
\* SpecChunk: one call of chunk_text, one iteration of its loop per step,
\* on every text, chunk_size and overlap within the bounds that satisfy
\* chunk_size > 0 and 0 <= overlap < chunk_size.
\* ------------------------------------------------------------------------
InitChunk ==
    /\ stores = [s \in {"user"} |-> NewStore]
    /\ disk = [p \in {"user_pdf_vectorstore"} |-> EmptyDir]
    /\ ret = InitRet
    /\ models = EachOwnModel(DOMAIN stores)
    /\ SearchIdle
    /\ text \in SeqsUpTo(Alphabet, MaxTextLen)
    /\ chunk_size \in 1..MaxSize
    /\ overlap \in 0..(chunk_size - 1)
    /\ start = 0
    /\ chunks = <<>>
    /\ pc = "loop"
    /\ AppIdle
    /\ ParserIdle

\* while start < len(text): one iteration
chunk_loop ==
    /\ pc = "loop"
    /\ start < Len(text)
    /\ chunks' = Emit(chunks, text, start, chunk_size)
    /\ start' = NextStart(start, chunk_size, overlap)
    /\ UNCHANGED <<text, chunk_size, overlap, pc, storeVars, appVars, parseVars, models, searchVars>>

\* the while test fails: return chunks
chunk_return ==
    /\ pc = "loop"
    /\ ~(start < Len(text))
    /\ pc' = "done"
    /\ UNCHANGED <<text, chunk_size, overlap, start, chunks, storeVars, appVars, parseVars, models, searchVars>>

NextChunk == chunk_loop \/ chunk_return

\* the interpreter always runs the next statement of a call in progress
SpecChunk ==
    InitChunk /\ [][NextChunk]_vars /\ WF_vars(chunk_loop) /\ WF_vars(chunk_return)

\* ------------------------------------------------------------------------
\* Properties of the VectorStore
\* ------------------------------------------------------------------------
Min(a, b) == IF a < b THEN a ELSE b

\* number of vectors an index holds (ntotal); none for self.index = None
NTotal(s) == Len(s.index.xb)

\* a store whose index was built over exactly its chunks, at least one
Populated(s) == ~s.index.none /\ Len(s.chunks) >= 1 /\ NTotal(s) = Len(s.chunks)

Occurrences(results, c) == Cardinality({i \in 1..Len(results) : results[i].chunk = c})

SearchReturned == ret.op = "search" /\ ret.err # "EmbeddingBackendError"

\* C1: a search on an index of n >= 1 chunks returns exactly min(top_k, n)
\* results, and with top_k > n every stored chunk exactly once.
C1_SearchReturnsMinTopKN ==
    (SearchReturned /\ Populated(stores[ret.store])) =>
        LET s == stores[ret.store]
            n == Len(s.chunks)
        IN /\ ret.err = "none"
           /\ Len(ret.results) = Min(ret.top_k, n)
           /\ ret.top_k > n =>
                  \A i \in 1..n : Occurrences(ret.results, s.chunks[i]) = 1

\* C2: in every reachable state every store has as many chunks as vectors.
C2_ChunksMatchVectors ==
    \A s \in DOMAIN stores : Len(stores[s].chunks) = NTotal(stores[s])

\* C3: a search on a never-built index or on an index of zero chunks
\* returns the empty sequence and raises nothing.
C3_EmptyIndexSearchIsEmpty ==
    (SearchReturned /\ (stores[ret.store].index.none \/ Len(stores[ret.store].chunks) = 0)) =>
        ret.err = "none" /\ ret.results = <<>>

Range(f) == {f[i] : i \in DOMAIN f}

ResultChunks(r) == {r.results[i].chunk : i \in 1..Len(r.results)}

\* C4: when a populated store X has just been saved to a path and a store
\* Y, whatever it held, loads that path, the load succeeds and Y holds
\* exactly X's chunks in X's order and X's vectors, so that every search
\* on Y gives what it gives on X.
C4_LoadRestoresSaved ==
    [][(/\ ret.op = "save" /\ ret.err = "none"
        /\ Populated(stores[ret.store])
        /\ ret'.op = "load" /\ ret'.path = ret.path)
       => LET x == stores[ret.store]
              y == stores'[ret'.store]
          IN /\ ret'.err = "none"
             /\ y.chunks = x.chunks
             /\ y.index = x.index
             /\ \A q \in Queries, k \in TopKs :
                    Search(y, q, k, TRUE) = Search(x, q, k, TRUE)]_vars

\* a store has loaded the populated index another store saved and still holds
C4_Witness ==
    /\ ret.op = "load" /\ ret.err = "none"
    /\ Populated(stores[ret.store])
    /\ disk[ret.path].pkl = PklFile(stores[ret.store].chunks)
    /\ \E x \in DOMAIN stores \ {ret.store} : stores[x] = stores[ret.store]

C10_ChunkerTerminates ==
    /\ <>(pc = "done")
    /\ [][start' # start =>
            start' = start + (chunk_size - overlap) /\ start < Len(text)]_vars
    /\ [](pc = "done" =>
            /\ start >= Len(text)
            /\ start = 0 \/ start - (chunk_size - overlap) < Len(text))

\* a call that went through at least two windows has returned
C10_Witness == pc = "done" /\ start >= 2 * (chunk_size - overlap) /\ overlap > 0

\* ------------------------------------------------------------------------
\* Properties of the answer operations
\* ------------------------------------------------------------------------
\* an index that is absent (None) or holds no vector
EmptyIndex(s) == s.index.none \/ NTotal(s) = 0

\* C6: when both corpora are asked and exactly one of them has an empty or
\* absent index, the call raises nothing, the empty corpus gives an empty
\* list and the other corpus gives its own search results.
C6_OneEmptyCorpusDegrades ==
    LET ks == stores["knowledge"]
        us == stores["user"]
    IN (/\ ret.op = "qna_with_knowledge"
        /\ \/ EmptyIndex(ks) /\ Populated(us)
           \/ EmptyIndex(us) /\ Populated(ks))
       => /\ ret.err = "none"
          /\ EmptyIndex(ks) => ret.results.knowledge_results = <<>>
          /\ EmptyIndex(us) => ret.results.pdf_results = <<>>
          /\ Populated(ks) =>
                /\ ret.results.knowledge_results # <<>>
                /\ ret.results.knowledge_results
                       = Search(ks, ret.query, ret.top_k, TRUE).results
          /\ Populated(us) =>
                /\ ret.results.pdf_results # <<>>
                /\ ret.results.pdf_results
                       = Search(us, ret.query, ret.top_k, TRUE).results

QnaOps == {"qna_with_knowledge", "qna_with_knowledge_only", "qna_with_pdf_only"}

SentinelOf(op) ==
    IF op = "qna_with_knowledge" THEN NothingFound
    ELSE IF op = "qna_with_knowledge_only" THEN NothingFoundKnowledge
    ELSE NothingFoundPdf

\* the result lists of the corpora the operation asks
RequestedResults(op, ks, us, q, k) ==
    (IF op \in {"qna_with_knowledge", "qna_with_knowledge_only"}
     THEN {Search(ks, q, k, TRUE).results} ELSE {})
    \cup (IF op \in {"qna_with_knowledge", "qna_with_pdf_only"}
          THEN {Search(us, q, k, TRUE).results} ELSE {})

SourceLists(op, value) ==
    IF op = "qna_with_knowledge"
    THEN {value.knowledge_sources, value.pdf_sources}
    ELSE {value.sources}

\* C7: an answer operation whose requested corpora all returned an empty
\* list returns its fixed nothing-found answer with empty source lists
\* and never calls the answer-generation service; in every other case it
\* calls the service exactly once.
C7_SentinelWithoutGeneration ==
    (ret.op \in QnaOps /\ ret.err = "none") =>
        LET lists == RequestedResults(ret.op, stores["knowledge"], stores["user"],
                                      ret.query, ret.top_k)
        IN IF lists = {<<>>}
           THEN /\ ret.results.value.answer = SentinelOf(ret.op)
                /\ SourceLists(ret.op, ret.results.value) = {<<>>}
                /\ ret.results.llm_calls = 0
           ELSE /\ ret.results.llm_calls = 1
                /\ ret.results.value.answer = LLMAnswer

\* the user-only operation returned its fixed answer, without a call of
\* the service, while the knowledge corpus it does not ask is populated
C7_Witness ==
    /\ ret.op = "qna_with_pdf_only" /\ ret.err = "none"
    /\ ret.results.value.answer = NothingFoundPdf
    /\ ret.results.llm_calls = 0
    /\ Populated(stores["knowledge"])

\* C8: the two corpora are searched independently with the same top_k:
\* the knowledge list is the search of the knowledge store and the user
\* list the search of the user store, each source record carries the label
\* of its own list and describes the result at its position, and every
\* chunk returned under a label is a chunk of that store.
C8_CorporaSearchedSeparately ==
    (ret.op = "qna_with_knowledge" /\ ret.err = "none") =>
        LET ks == stores["knowledge"]
            us == stores["user"]
            kr == ret.results.knowledge_results
            pr == ret.results.pdf_results
            v == ret.results.value
        IN /\ kr = Search(ks, ret.query, ret.top_k, TRUE).results
           /\ pr = Search(us, ret.query, ret.top_k, TRUE).results
           /\ \A i \in 1..Len(kr) : kr[i].chunk \in Range(ks.chunks)
           /\ \A i \in 1..Len(pr) : pr[i].chunk \in Range(us.chunks)
           /\ (kr # <<>> \/ pr # <<>>) =>
                 /\ Len(v.knowledge_sources) = Len(kr)
                 /\ Len(v.pdf_sources) = Len(pr)
                 /\ \A i \in 1..Len(kr) :
                        /\ v.knowledge_sources[i].type = "knowledge"
                        /\ v.knowledge_sources[i].index = kr[i].chunk.index
                        /\ v.knowledge_sources[i].text = Preview(kr[i].chunk.text)
                 /\ \A i \in 1..Len(pr) :
                        /\ v.pdf_sources[i].type = "user_pdf"
                        /\ v.pdf_sources[i].index = pr[i].chunk.index
                        /\ v.pdf_sources[i].text = Preview(pr[i].chunk.text)

\* both corpora populated and both lists returned
C8_Witness ==
    /\ ret.op = "qna_with_knowledge" /\ ret.err = "none"
    /\ Len(stores["knowledge"].chunks) >= 2
    /\ Len(stores["user"].chunks) >= 2
    /\ ret.results.knowledge_results # <<>>
    /\ ret.results.pdf_results # <<>>
    /\ ret.results.pdf_results[1].chunk # stores["user"].chunks[1]

\* the chunks of the documents of a set of texts, as the app indexes them
ChunksOfTexts(T) ==
    UNION {Range(ChunkText(t, DefaultChunkSize, DefaultOverlap)) : t \in T}

\* C9: a question of a session retrieves from the user corpus only chunks
\* of documents uploaded in that session, whatever the other sessions of
\* the process upload or ask.
C9_UserCorpusSessionScoped ==
    (ret.op = "ask" /\ ret.results # <<>> /\ ret.err \in {"none", "rerun"}) =>
        \A i \in 1..Len(ret.results.pdf_results) :
            ret.results.pdf_results[i].chunk \in ChunksOfTexts(sessions[ret.store].uploaded)

\* ------------------------------------------------------------------------
\* Properties of chunk_text
\* ------------------------------------------------------------------------
\* C11: every chunk chunk_text has emitted has a text that is not empty
\* after trimming, and the chunk at position i of the list has index i - 1,
\* whatever windows were skipped before it.
C11_ChunksNonBlankContiguous ==
    \A i \in 1..Len(chunks) :
        /\ Strip(chunks[i].text) # <<>>
        /\ chunks[i].index = i - 1

\* a call has returned two chunks with a skipped window between them
C11_Witness ==
    /\ pc = "done" /\ Len(chunks) >= 2
    /\ \E i \in 1..(Len(chunks) - 1) :
           chunks[i + 1].start > chunks[i].start + (chunk_size - overlap)

\* C12: a call with chunk_size >= len(text) returns exactly one chunk, the
\* whole text, when the text is not whitespace-only, and no chunk otherwise.
C12_WholeTextOneChunk ==
    (pc = "done" /\ chunk_size >= Len(text)) =>
        IF Strip(text) # <<>>
        THEN Len(chunks) = 1 /\ chunks[1].text = text
        ELSE chunks = <<>>

Max(a, b) == IF a > b THEN a ELSE b

NonSpace(t) == SelectSeq(t, LAMBDA c : ~IsSpace(c))

\* the chunk ranges of cs[i..] joined, each without the part of it that
\* lies before position from
RECURSIVE OverlapRemoved(_, _, _, _)
OverlapRemoved(t, cs, i, from) ==
    IF i > Len(cs) THEN <<>>
    ELSE Slice(t, Max(cs[i].start, from), Max(cs[i].end, from))
             \o OverlapRemoved(t, cs, i + 1, Max(cs[i].end, from))

\* C13: when chunk_text has returned, every position of the text that holds
\* a non-whitespace character lies in the range of a chunk, the text of
\* each chunk is the slice of its range, the ranges come in increasing
\* order, and the ranges joined with their overlaps removed are the text
\* with nothing but whitespace left out.
C13_ChunksCoverText ==
    pc = "done" =>
        /\ \A p \in 0..(Len(text) - 1) :
               ~IsSpace(text[p + 1]) =>
                   \E i \in 1..Len(chunks) : chunks[i].start <= p /\ p < chunks[i].end
        /\ \A i \in 1..Len(chunks) :
               /\ chunks[i].text = Slice(text, chunks[i].start, chunks[i].end)
               /\ chunks[i].end = chunks[i].start + chunk_size
        /\ \A i \in 1..(Len(chunks) - 1) : chunks[i].start < chunks[i + 1].start
        /\ NonSpace(OverlapRemoved(text, chunks, 1, 0)) = NonSpace(text)

\* a call with overlapping windows has returned two chunks and skipped a
\* whitespace-only stretch of the text
C13_Witness ==
    /\ pc = "done" /\ overlap > 0 /\ Len(chunks) >= 2
    /\ OverlapRemoved(text, chunks, 1, 0) # text

\* ------------------------------------------------------------------------
\* Properties of the persisted index
\* ------------------------------------------------------------------------
\* the chunk list of a store is the one its vectors were computed from
Consistent(s) ==
    /\ ~s.index.none
    /\ Len(s.chunks) = NTotal(s)
    /\ s.index.xb = EncodeAll(Texts(s.chunks))

\* C14: a load that returns leaves a store whose chunk list matches its
\* vectors in count and order, whatever saves, interrupted or not, were
\* made to the path before.
C14_LoadOnlyConsistent ==
    (ret.op = "load" /\ ret.err = "none") => Consistent(stores[ret.store])

\* C15: a load of a missing or unreadable artifact is surfaced to its
\* caller with its cause, also when it is the load of the knowledge index
\* that the constructor of RAGSystem makes on an existing directory.
C15_LoadFailureSurfaced ==
    LET dir == disk[KnowledgePath]
        cause == LoadFrom(NewStore, dir).err
    IN /\ (ret.op = "RAGSystem" /\ dir # EmptyDir) => ret.err = cause
       /\ (ret.op = "load_knowledge_index" /\ ret.err = "none") =>
              LoadFrom(stores["knowledge"], dir).err = "none"

\* ------------------------------------------------------------------------
\* Properties of the corpus extractor
\* ------------------------------------------------------------------------
\* an object as the one-element sequence of itself, a sequence as it is
AsSeq(v) == IF IsList(v) THEN v.val ELSE IF IsDict(v) THEN <<v>> ELSE <<>>

\* the value under key k of an object, None for anything else
Child(v, k) == IF IsDict(v) /\ HasKey(v, k) THEN DictGet(v, k) ELSE JNull

\* the values one step down the path from each of vs[i..], in order
RECURSIVE StepDown(_, _, _)
StepDown(vs, k, i) ==
    IF i > Len(vs) THEN <<>>
    ELSE AsSeq(Child(vs[i], k)) \o StepDown(vs, k, i + 1)

\* the string values under ko_txt of vs[i..], in order
RECURSIVE KoTxtStrings(_, _)
KoTxtStrings(vs, i) ==
    IF i > Len(vs) THEN <<>>
    ELSE (IF IsStr(Child(vs[i], "ko_txt")) THEN <<Child(vs[i], "ko_txt").val>> ELSE <<>>)
             \o KoTxtStrings(vs, i + 1)

\* the ko_txt strings on the path root -> corpus -> ko_info -> ko_txt
PathValues(root) ==
    KoTxtStrings(StepDown(StepDown(AsSeq(root), "corpus", 1), "ko_info", 1), 1)

RECURSIVE TrimmedNonBlank(_)
TrimmedNonBlank(ts) ==
    IF ts = <<>> THEN <<>>
    ELSE (IF Strip(Head(ts)) # <<>> THEN <<Strip(Head(ts))>> ELSE <<>>)
             \o TrimmedNonBlank(Tail(ts))

\* C16: _extract_ko_txt returns the ko_txt strings found on the path
\* root -> corpus -> ko_info -> ko_txt, each trimmed, the blank ones left
\* out, in document order, joined by one newline.
C16_ExtractsPathValues ==
    ret.op = "_extract_ko_txt" =>
        /\ ret.err = "none"
        /\ ret.results = JoinLines(TrimmedNonBlank(PathValues(payload.arg)))

\* a root that is a sequence of two documents gave both texts, trimmed
C16_Witness ==
    /\ ret.op = "_extract_ko_txt"
    /\ payload.arg \in GoodRoots
    /\ IsList(payload.arg) /\ Len(payload.arg.val) = 2
    /\ ret.results = <<"B", "\n", "A">>

\* what a corpus entry, a root document or a file of the mixed inputs
\* contributes: its text when it is well formed, nothing otherwise
Contribution(v) ==
    IF v \in {EntryA, Document(EntryA), JsonFile(Document(EntryA))} THEN <<TxtA>>
    ELSE IF v \in {EntryB, Document(EntryB), JsonFile(Document(EntryB))} THEN <<<<"B">>>>
    ELSE <<>>

RECURSIVE Contributions(_)
Contributions(vs) ==
    IF vs = <<>> THEN <<>> ELSE Contribution(Head(vs)) \o Contributions(Tail(vs))

\* C17: malformed corpus entries, root documents without corpus and files
\* that are blank or do not parse contribute nothing and raise nothing,
\* and every well-formed sibling before and after them contributes its
\* text.
C17_MalformedSkipped ==
    /\ (ret.op = "_extract_ko_txt" /\ payload.arg \in MixedRoots) =>
           /\ ret.err = "none"
           /\ ret.results = JoinLines(Contributions(
                  IF IsList(payload.arg) THEN payload.arg.val
                  ELSE DictGet(payload.arg, "corpus").val))
    /\ (ret.op = "read_all_json_files" /\ payload.arg # <<>>) =>
           /\ ret.err = "none"
           /\ ret.results = Contributions(payload.arg)

\* a file that does not parse stood between two that were extracted
C17_Witness ==
    /\ ret.op = "read_all_json_files"
    /\ Len(payload.arg) = 3 /\ payload.arg[2] = BadFile
    /\ ret.results = <<TxtA, <<"B">>>>

\* ------------------------------------------------------------------------
\* Properties of the generic JSON parser
\* ------------------------------------------------------------------------
\* the leaves of a JSON value in document order: the values that are neither
\* an object nor a sequence
RECURSIVE Leaves(_)
RECURSIVE LeavesOfMembers(_, _)
LeavesOfMembers(items, i) ==
    IF i > Len(items) THEN <<>>
    ELSE Leaves(IF "key" \in DOMAIN items[i] THEN items[i].val ELSE items[i])
             \o LeavesOfMembers(items, i + 1)
Leaves(v) ==
    IF v.kind \in {"list", "dict"} THEN LeavesOfMembers(v.val, 1) ELSE <<v>>

\* a leaf that is to produce a chunk: a non-blank string, or a scalar that is
\* not a string
ChunkLeaf(v) == v.kind # "str" \/ Strip(v.val) # <<>>
ChunkLeaves(v) == SelectSeq(Leaves(v), ChunkLeaf)

\* t ends with u
EndsWith(t, u) ==
    /\ Len(u) <= Len(t)
    /\ SubSeq(t, Len(t) - Len(u) + 1, Len(t)) = u

\* C18: the chunks parse_knowledge_json returns are, in order, one per leaf
\* of the input that is a non-blank string or a scalar that is not a string,
\* each ending with the text of its leaf: a blank string gives no chunk and
\* no object or sequence gives a chunk of its own.
C18_ChunkPerLeaf ==
    (ret.op = "parse_knowledge_json" /\ ret.err = "none") =>
        LET leaves == ChunkLeaves(payload.arg.val)
        IN /\ Len(ret.results) = Len(leaves)
           /\ \A i \in 1..Len(leaves) : EndsWith(ret.results[i].text, PyStr(leaves[i]))

\* ------------------------------------------------------------------------
\* Properties of the chunking of merged.txt
\* ------------------------------------------------------------------------
\* position p of t holds a newline that has a newline next to it
InNewlineRun(t, p) ==
    /\ t[p] = "\n"
    /\ \/ p > 1 /\ t[p - 1] = "\n"
       \/ p < Len(t) /\ t[p + 1] = "\n"

\* the stretches lo..hi of t between runs of two or more newlines that hold
\* something else than white space
Stretches(t) ==
    {iv \in (1..Len(t)) \X (1..Len(t)) :
        /\ iv[1] <= iv[2]
        /\ \A p \in iv[1]..iv[2] : ~InNewlineRun(t, p)
        /\ iv[1] = 1 \/ InNewlineRun(t, iv[1] - 1)
        /\ iv[2] = Len(t) \/ InNewlineRun(t, iv[2] + 1)
        /\ \E p \in iv[1]..iv[2] : ~IsSpace(t[p])}

\* the stretch without the white space at its two ends
Trimmed(t, iv) ==
    LET lo == CHOOSE p \in iv[1]..iv[2] :
                  ~IsSpace(t[p]) /\ \A q \in iv[1]..(p - 1) : IsSpace(t[q])
        hi == CHOOSE p \in iv[1]..iv[2] :
                  ~IsSpace(t[p]) /\ \A q \in (p + 1)..iv[2] : IsSpace(t[q])
    IN SubSeq(t, lo, hi)

\* C19: the chunks made of merged.txt are, in file order and numbered from
\* 0, the trimmed stretches of text between runs of two or more newlines
\* that are not blank; a single newline stays inside its chunk and no chunk
\* holds two newlines in a row.
C19_SplitOnNewlineRuns ==
    ret.op = "build_index_from_merged" =>
        LET t == payload.arg
            cl == ret.chunks
        IN /\ Len(cl) = Cardinality(Stretches(t))
           /\ \A iv \in Stretches(t) :
                  cl[1 + Cardinality({w \in Stretches(t) : w[1] < iv[1]})].text
                      = Trimmed(t, iv)
           /\ \A i \in 1..Len(cl) :
                  /\ cl[i].index = i - 1
                  /\ \A p \in 1..(Len(cl[i].text) - 1) :
                         ~(cl[i].text[p] = "\n" /\ cl[i].text[p + 1] = "\n")

\* "doc1a\ndoc1b\n\n\ndoc2" gives the two chunks "doc1a\ndoc1b" and "doc2"
C19_Witness ==
    /\ ret.op = "build_index_from_merged"
    /\ payload.arg = <<"a", "\n", "a", "\n", "\n", "\n", "a">>
    /\ ret.chunks = <<[text |-> <<"a", "\n", "a">>, index |-> 0],
                      [text |-> <<"a">>, index |-> 1]>>

\* ------------------------------------------------------------------------
\* Properties of the context
\* ------------------------------------------------------------------------
\* the positions of a context that hold the header of a corpus, and those
\* that hold a numbered chunk of it
HeaderPositions(ctx, corpus) ==
    {p \in 1..Len(ctx) : "header" \in DOMAIN ctx[p] /\ ctx[p].header = corpus}
ChunkPositions(ctx, corpus) ==
    {p \in 1..Len(ctx) : "label" \in DOMAIN ctx[p] /\ ctx[p].label = corpus}

\* ctx holds the section of corpus exactly when results is not empty: one
\* header, then the chunks of results in their order, numbered from 1
HoldsSection(ctx, corpus, results) ==
    /\ Cardinality(HeaderPositions(ctx, corpus)) = (IF results # <<>> THEN 1 ELSE 0)
    /\ Cardinality(ChunkPositions(ctx, corpus)) = Len(results)
    /\ \A p \in ChunkPositions(ctx, corpus) :
           LET j == 1 + Cardinality({q \in ChunkPositions(ctx, corpus) : q < p})
           IN /\ ctx[p].ordinal = j
              /\ ctx[p].text = results[j].chunk.text
              /\ \A h \in HeaderPositions(ctx, corpus) : h < p

\* C20: the context answer_with_knowledge hands to the answer generation
\* holds one section for each corpus that gave results and nothing else,
\* the knowledge section before the section of the uploaded document, and
\* in each section the chunks in the order of the search, numbered 1..k
\* from 1 in each section.
C20_ContextSections ==
    (ret.op = "qna_with_knowledge" /\ ret.err = "none" /\ ret.results.llm_calls = 1) =>
        LET ctx == ret.results.context
            kpos == HeaderPositions(ctx, "knowledge") \cup ChunkPositions(ctx, "knowledge")
            dpos == HeaderPositions(ctx, "document") \cup ChunkPositions(ctx, "document")
        IN /\ HoldsSection(ctx, "knowledge", ret.results.knowledge_results)
           /\ HoldsSection(ctx, "document", ret.results.pdf_results)
           /\ kpos \cup dpos = 1..Len(ctx)
           /\ \A p \in kpos, q \in dpos : p < q

\* both corpora gave results, the knowledge corpus more than one
C20_Witness ==
    /\ ret.op = "qna_with_knowledge"
    /\ ret.err = "none"
    /\ Len(ret.results.knowledge_results) >= 2
    /\ Len(ret.results.pdf_results) >= 1
    /\ Len(ret.results.context) = 2 + Len(ret.results.knowledge_results)
                                    + Len(ret.results.pdf_results)

\* ------------------------------------------------------------------------
\* Properties of the source records
\* ------------------------------------------------------------------------
\* srcs has one record per chunk of corpus rendered in ctx, in the same
\* order, with the index of that chunk and the label type
ParallelSources(srcs, ctx, corpus, type, results) ==
    /\ Len(srcs) = Cardinality(ChunkPositions(ctx, corpus))
    /\ Len(srcs) = Len(results)
    /\ \A p \in ChunkPositions(ctx, corpus) :
           LET j == 1 + Cardinality({q \in ChunkPositions(ctx, corpus) : q < p})
           IN /\ ctx[p].text = results[j].chunk.text
              /\ srcs[j].index = results[j].chunk.index
              /\ srcs[j].type = type

\* the text of each record is the text of its chunk cut to PreviewLen
TruncatedPreviews(srcs, results) ==
    \A j \in 1..Len(srcs) :
        LET t == results[j].chunk.text
        IN /\ Len(srcs[j].text) <= PreviewLen
           /\ srcs[j].text = SubSeq(t, 1, Min(PreviewLen, Len(t)))

\* the records of both corpora are parallel to the rendered chunks
SourcesParallel ==
    (ret.op = "qna_with_knowledge" /\ ret.err = "none" /\ ret.results.llm_calls = 1) =>
        /\ ParallelSources(ret.results.value.knowledge_sources, ret.results.context,
                           "knowledge", "knowledge", ret.results.knowledge_results)
        /\ ParallelSources(ret.results.value.pdf_sources, ret.results.context,
                           "document", "user_pdf", ret.results.pdf_results)

\* C21: answer_with_knowledge returns, for each corpus, one source record
\* per chunk rendered in the context, in the same order, with the index of
\* the chunk and the label of the corpus, and as text the text of the chunk
\* cut to at most PreviewLen characters.
C21_SourcesParallelTruncated ==
    (ret.op = "qna_with_knowledge" /\ ret.err = "none" /\ ret.results.llm_calls = 1) =>
        /\ SourcesParallel
        /\ TruncatedPreviews(ret.results.value.knowledge_sources,
                             ret.results.knowledge_results)
        /\ TruncatedPreviews(ret.results.value.pdf_sources, ret.results.pdf_results)

\* ------------------------------------------------------------------------
\* Properties of the embedding model
\* ------------------------------------------------------------------------
\* the SentenceTransformer objects held by the stores made so far
ModelsHeld == {models[s] : s \in DOMAIN models} \ {NoModel}

\* C22: the process makes at most one SentenceTransformer for the one model
\* configuration RAGSystem passes on, and the knowledge store and the user
\* store of a RAGSystem hold the same one.
C22_OneSharedModel ==
    /\ Cardinality(ModelsHeld) <= 1
    /\ ret.op = "RAGSystem" => models["knowledge"] = models["user"]

\* ------------------------------------------------------------------------
\* Properties of concurrent searches
\* ------------------------------------------------------------------------
\* what the call of caller c returns or raises is what one call of search
\* alone gives for its query and top_k on store value s
AsAlone(c, s) ==
    LET alone == Search(s, callers[c].query, callers[c].top_k, TRUE)
    IN /\ callers[c].err = alone.err
       /\ callers[c].results = alone.results

\* C23: no step of a search changes the vectors, the chunk list or a chunk
\* of the store, and every search that has ended among interleaved ones has
\* the result of the same search run alone.
C23_SearchReadOnly ==
    /\ [][stores' = stores]_vars
    /\ [](\A c \in CallerIds : callers[c].pc = "done" => AsAlone(c, stores["user"]))

\* one search has ended with two results while the other is inside its loop
C23_Witness ==
    /\ callers["c1"].pc = "done"
    /\ Len(callers["c1"].results) >= 2
    /\ callers["c2"].pc = "loop"
    /\ callers["c2"].i >= 2
    /\ callers["c2"].query # callers["c1"].query

\* ------------------------------------------------------------------------
\* Properties of the merged file
\* ------------------------------------------------------------------------
\* C24: the chunks build_index_from_merged makes of the file that
\* write_merged_file wrote are the documents read_all_json_files returned:
\* as many, in the same order, each chunk with the text of its document.
C24_MergedRoundTrip ==
    (ret.op = "main" /\ payload.build_index /\ ret.err \in {"none", "ValueError"}) =>
        /\ Len(ret.chunks) = Len(ret.results)
        /\ \A i \in 1..Len(ret.results) :
               /\ ret.chunks[i].text = ret.results[i]
               /\ ret.chunks[i].index = i - 1
====
